---- MODULE Spec2Model ----
(***************************************************************************)
(* osbs-client: the watch / wait / log-streaming part of osbs/core.py      *)
(* (class Openshift) on top of osbs/http.py (HttpSession, HttpStream).     *)
(*                                                                         *)
(* Each operation is modelled under a specification of its own:            *)
(*   Spec          watch_resource, a generator, driven by a plain consumer *)
(*   SpecWait      wait(build_id, states), the consumer of watch_resource  *)
(*   SpecWaitEnds  wait over a sequence of pairs that can end              *)
(*   SpecScheduled wait with the state lists of the wait_for_build methods *)
(*   SpecFinish    wait_for_build_to_finish, the retry loop around wait    *)
(*   SpecLogs      stream_logs, a generator, driven by a plain consumer    *)
(*   SpecLogsCall  logs(build_id, follow, wait_if_missing)                 *)
(*   SpecHttp      HttpSession.request and the HttpStream it returns       *)
(*   SpecResponse  HttpResponse.json and check_response on a response      *)
(*   SpecTwo       two generators running on one Openshift object          *)
(*   SpecRetry     one request under the transport's retry policy          *)
(*   SpecAuth      _request_args and get_oauth_token in front of _get      *)
(*   SpecBuildConfig  wait_for_new_build_config_instance                   *)
(*   SpecImport    import_image                                            *)
(*   SpecFinishWatch  wait_for_build_to_finish over wait, watch_resource  *)
(*   SpecReplay    watch_resource against a server replaying its changes   *)
(*   SpecKinds     the three consumers of watch events, on error events    *)
(* Time is counted in ticks of 1/TicksPerSecond second, so that the float  *)
(* time.time() has a fractional part and int() has something to truncate.  *)
(***************************************************************************)
EXTENDS Integers, Sequences, FiniteSets, TLC

\* ------------------------------------------------------------------ bounds
MaxLines == 3
MaxConns == 2
TicksPerSecond == 2
MaxLogConns == 3
MaxLogLines == 2
MaxTime == 400
MaxStreamLines == 2

\* ------------------------------------------------------- program constants
HTTP_OK == 200
HTTP_CREATED == 201
BackoffSeconds == 30
min_idle_timeout == 60
RetryFirst == 1

\* ----------------------------------------------------------------- strings
\* A str is a sequence of one-character strings; str.lower() maps A-Z to a-z.
Uppers == <<"A","B","C","D","E","F","G","H","I","J","K","L","M",
            "N","O","P","Q","R","S","T","U","V","W","X","Y","Z">>
Lowers == <<"a","b","c","d","e","f","g","h","i","j","k","l","m",
            "n","o","p","q","r","s","t","u","v","w","x","y","z">>

LowerChar(c) ==
    IF \E i \in DOMAIN Uppers : Uppers[i] = c
    THEN Lowers[CHOOSE i \in DOMAIN Uppers : Uppers[i] = c]
    ELSE c

Lower(s) == [i \in DOMAIN s |-> LowerChar(s[i])]

S_ADDED     == <<"A","D","D","E","D">>
S_Modified  == <<"M","o","d","i","f","i","e","d">>
S_MODIFIED  == <<"M","O","D","I","F","I","E","D">>
S_DELETED   == <<"D","E","L","E","T","E","D">>
S_deleted_l == <<"d","e","l","e","t","e","d">>
S_ERROR     == <<"E","R","R","O","R">>
S_BOOKMARK  == <<"B","O","O","K","M","A","R","K">>

S_Complete  == <<"C","o","m","p","l","e","t","e">>
S_complete  == <<"c","o","m","p","l","e","t","e">>
S_Running   == <<"R","u","n","n","i","n","g">>
S_running   == <<"r","u","n","n","i","n","g">>
S_New       == <<"N","e","w">>
S_Failed    == <<"F","a","i","l","e","d">>
S_Cancelled == <<"C","a","n","c","e","l","l","e","d">>
S_Pending   == <<"P","e","n","d","i","n","g">>

Range(f) == {f[i] : i \in DOMAIN f}

\* osbs.constants: the phases of a build, lower-cased, by lifecycle stage.
BUILD_FINISHED_STATES == <<S_complete, Lower(S_Failed), Lower(S_Cancelled)>>
BUILD_RUNNING_STATES == <<S_running>>
BUILD_PENDING_STATES == <<Lower(S_New), Lower(S_Pending)>>

\* ------------------------------------------------ objects and stream lines
\* The value of a line's "object" key.  isDict = FALSE is a JSON value that
\* is no object (null); hasName is metadata.name present, hasPhase is
\* status.phase present.
Obj(name, phase) ==
    [isDict |-> TRUE, hasName |-> TRUE, name |-> name,
     hasPhase |-> TRUE, phase |-> phase]
ObjNoName(phase) ==
    [isDict |-> TRUE, hasName |-> FALSE, name |-> "",
     hasPhase |-> TRUE, phase |-> phase]
ObjNoPhase(name) ==
    [isDict |-> TRUE, hasName |-> TRUE, name |-> name,
     hasPhase |-> FALSE, phase |-> <<>>]
ObjNull ==
    [isDict |-> FALSE, hasName |-> FALSE, name |-> "",
     hasPhase |-> FALSE, phase |-> <<>>]

\* One line of a watch response body.  json says what json.loads makes of
\* it: "invalid" (ValueError), "null" (a scalar: None, a number, a bool),
\* "list", or "dict"; the other fields describe the dict.
Line(json, hasType, typeIsStr, type, hasObject, object) ==
    [json |-> json, hasType |-> hasType, typeIsStr |-> typeIsStr,
     type |-> type, hasObject |-> hasObject, object |-> object]

LineInvalid  == Line("invalid", FALSE, FALSE, <<>>, FALSE, ObjNull)
LineNull     == Line("null", FALSE, FALSE, <<>>, FALSE, ObjNull)
LineList     == Line("list", FALSE, FALSE, <<>>, FALSE, ObjNull)
LineNoObject == Line("dict", TRUE, TRUE, S_ADDED, FALSE, ObjNull)
LineNoType(o) == Line("dict", FALSE, FALSE, <<>>, TRUE, o)
LineNumType(o) == Line("dict", TRUE, FALSE, <<>>, TRUE, o)
Event(type, o) == Line("dict", TRUE, TRUE, type, TRUE, o)

\* The lines a server may send on a watch that a plain consumer reads: every
\* shape watch_resource tells apart, and types in several letter cases.
PlainObject == Obj("b1", S_Complete)
WatchTypes == {S_ADDED, S_Modified, S_BOOKMARK}
WatchLines ==
    {LineInvalid, LineNull, LineList, LineNoObject,
     LineNoType(PlainObject), LineNumType(PlainObject)}
    \cup {Event(t, PlainObject) : t \in WatchTypes}

\* The lines a server may send on the builds watch that wait reads.
WaitLines ==
    {Event(S_ADDED, Obj("b1", S_New)),
     Event(S_MODIFIED, Obj("b1", S_Running)),
     Event(S_MODIFIED, Obj("b1", S_Complete)),
     Event(S_MODIFIED, Obj("b1", S_complete)),
     Event(S_DELETED, Obj("b1", S_Running)),
     Event(S_MODIFIED, Obj("b2", S_Complete)),
     Event(S_MODIFIED, Obj("b2", S_Running)),
     Event(S_MODIFIED, ObjNoName(S_Complete)),
     Event(S_MODIFIED, ObjNoPhase("b1")),
     Event(S_MODIFIED, ObjNull)}

\* The lines a server may send on the watch of a build that goes through its
\* phases: one per phase, and one of another build.
PhaseLines ==
    {Event(S_MODIFIED, Obj("b1", ph)) :
        ph \in {S_New, S_Pending, S_Running, S_Complete, S_Failed, S_Cancelled}}
    \cup {Event(S_MODIFIED, Obj("b2", S_Complete))}

\* A BuildConfig as the buildconfigs watch sends it: status.lastVersion is
\* missing, or a value that is an integer or not (a string).
BcObj(hasVersion, isInt, lastVersion) ==
    [isDict |-> TRUE, hasVersion |-> hasVersion, isInt |-> isInt,
     lastVersion |-> lastVersion]

\* The lines a server may send on the watch of a BuildConfig.
BcVersions == {1, 2}
BcLines ==
    {Event(t, BcObj(TRUE, TRUE, v)) :
        t \in {S_MODIFIED, S_Modified, S_ADDED}, v \in BcVersions}
    \cup {Event(S_MODIFIED, BcObj(TRUE, FALSE, 2)),
          Event(S_MODIFIED, BcObj(FALSE, FALSE, 0)),
          Event(S_DELETED, BcObj(TRUE, TRUE, 2)),
          Event(S_ERROR, BcObj(FALSE, FALSE, 0))}

\* The lines a server may send on the builds watch with an error event among
\* them: the same build objects under several kinds, and the Status object
\* of an error event, which has no metadata.name.
KindLines ==
    {Event(t, Obj("b1", ph)) :
        t \in {S_ERROR, S_MODIFIED, S_ADDED}, ph \in {S_Complete, S_Running}}
    \cup {Event(S_ERROR, ObjNoName(S_Failed))}

\* An ImageStream as the API sends it: the dockerRepositoryCheck annotation
\* is missing or a string (empty or not), status.tags is missing or a list.
\* isDict = FALSE is a JSON value that is no object.
ImObj(hasCheck, check, hasTags, tags) ==
    [isDict |-> TRUE, hasCheck |-> hasCheck, check |-> check,
     hasTags |-> hasTags, tags |-> tags]
ImNull ==
    [isDict |-> FALSE, hasCheck |-> FALSE, check |-> <<>>,
     hasTags |-> FALSE, tags |-> <<>>]

\* The values of status.tags: lists of tag names.
TagLists == {<<>>, <<"latest">>, <<"latest", "v1">>}
S_checked == <<"2", "0", "1", "6">>

\* The lines a server may send on the watch of an ImageStream.
ImLines ==
    {Event(S_ADDED, ImObj(TRUE, S_checked, TRUE, <<"latest", "v1">>)),
     Event(S_MODIFIED, ImObj(TRUE, <<>>, TRUE, <<"latest", "v1">>)),
     Event(S_MODIFIED, ImObj(FALSE, <<>>, TRUE, <<"latest">>)),
     Event(S_MODIFIED, ImObj(TRUE, S_checked, FALSE, <<>>)),
     Event(S_MODIFIED, ImNull),
     Event(S_DELETED, ImObj(TRUE, S_checked, TRUE, <<"latest", "v1">>)),
     Event(S_ERROR, ImNull)}
    \cup {Event(t, ImObj(TRUE, S_checked, TRUE, tg)) :
            t \in {S_MODIFIED, S_Modified}, tg \in TagLists}

\* The arguments wait is called with.
BuildIds == {"b1", "b2"}
StateSets == {{S_complete}, {S_Complete}, {S_complete, S_running}}

\* The status codes a server may answer a watch request with, and a log
\* request with.
WatchStatuses == {HTTP_OK, 404}
Statuses == {HTTP_OK, HTTP_CREATED, 404}
\* What HttpSession.request raises instead of returning a response.
ConnErrors == {"OsbsNetworkException", "OsbsException"}

\* ---------------------------------------------------------- pure functions
\* check_response accepting every status.
check_response_any(status) == "ok"

\* check_response: "ok", or the exception it raises.
check_response(status) ==
    IF status \in {HTTP_OK, HTTP_CREATED} THEN "ok" ELSE "OsbsResponseException"

\* A body is a sequence of bytes: a digit, a letter, a line feed, and a byte
\* that is neither ASCII nor valid in UTF-8.
MaxBody == 2
B_digit == "1"
B_letter == "a"
B_lf == "\n"
B_high == "xFF"
Bytes == {B_digit, B_letter, B_lf, B_high}
RECURSIVE SeqsUpTo(_, _)
SeqsUpTo(S, n) ==
    IF n = 0 THEN {<<>>}
    ELSE SeqsUpTo(S, n - 1)
         \cup {Append(q, x) : q \in {r \in SeqsUpTo(S, n - 1) : Len(r) = n - 1},
                              x \in S}
Bodies == SeqsUpTo(Bytes, MaxBody)

\* The status codes a response object is built with: 0 (no status line was
\* received), the two success codes, and others.
ResponseStatuses == {0, HTTP_OK, HTTP_CREATED, 404, 500}

\* self.content.decode(encoding), guess_json_utf finding UTF-8 for a body
\* without null bytes: fails on a byte that is not valid UTF-8
decodable(body) == \A i \in 1..Len(body) : body[i] # B_high

\* the text with its leading and trailing white space removed
RECURSIVE strip(_)
strip(text) ==
    IF text = <<>> THEN <<>>
    ELSE IF Head(text) = B_lf THEN strip(Tail(text))
    ELSE IF text[Len(text)] = B_lf THEN strip(SubSeq(text, 1, Len(text) - 1))
    ELSE text

\* json.loads(text) succeeds: white space, a number, white space
loadable(text) ==
    /\ strip(text) # <<>>
    /\ \A i \in 1..Len(strip(text)) : strip(text)[i] = B_digit

Returns(value) ==
    [kind |-> "return", type |-> "none", status_code |-> 0, value |-> value]
Raises(type, status_code, message) ==
    [kind |-> "raise", type |-> type, status_code |-> status_code,
     value |-> message]

\* The statuses json(check=True) lets through, without the 0.
json_accepted_no_zero == {HTTP_OK, HTTP_CREATED}

\* (0, requests.codes.OK, requests.codes.CREATED)
json_accepted == {0, HTTP_OK, HTTP_CREATED}

\* HttpResponse.json(self, check=True)
HttpResponse_json(r, check) ==
    IF ~decodable(r.body)
    THEN Raises("UnicodeDecodeError", 0, <<>>)
    ELSE IF check /\ r.status \notin json_accepted
    THEN Raises("OsbsResponseException", r.status, r.body)
    ELSE IF loadable(r.body)
    THEN Returns(strip(r.body))
    ELSE Raises("ValueError", 0, <<>>)

\* requests' iter_lines over the body: the lines without their terminators
RECURSIVE body_lines(_, _)
body_lines(body, cur) ==
    IF body = <<>> THEN (IF cur = <<>> THEN <<>> ELSE <<cur>>)
    ELSE IF Head(body) = B_lf THEN <<cur>> \o body_lines(Tail(body), <<>>)
    ELSE body_lines(Tail(body), Append(cur, Head(body)))

RECURSIVE join(_)
join(ls) == IF ls = <<>> THEN <<>> ELSE Head(ls) \o join(Tail(ls))

\* check_response: content = response.content if the response has one,
\* else ''.join(response.iter_lines()), '' being a unicode string and the
\* lines byte strings, which the join decodes as ASCII
response_content(r) ==
    IF r.kind = "HttpResponse"
    THEN Returns(r.body)
    ELSE IF \E i \in 1..Len(r.body) : r.body[i] = B_high
    THEN Raises("UnicodeDecodeError", 0, <<>>)
    ELSE Returns(join(body_lines(r.body, <<>>)))

\* check_response(response), with what the exception carries
check_response_raise(r) ==
    IF check_response(r.status) = "ok"
    THEN Returns(<<>>)
    ELSE IF response_content(r).kind = "raise"
    THEN response_content(r)
    ELSE Raises(check_response(r.status), r.status, response_content(r).value)

\* The bodies a server may send with a status that is no success: ASCII
\* text, and text with a byte outside ASCII.
ErrorBodies == {<<B_letter>>, <<B_high>>}

\* The body of a response as LogsRequest records it.
log_body(status, body) == IF check_response(status) = "ok" THEN <<>> ELSE body

\* close leaving the stream open.
close_leaks(open, c) == open

\* HttpStream.close, reached through __exit__ when a with block is left and
\* through __del__ when the last reference goes: the stream c is no longer
\* among the open ones.
close(open, c) == open \ {c}

\* The name is appended whether one was given or not.
watch_url_always_named(namespace, resource_type, resource_name, request_args) ==
    [path |-> <<"watch", "namespaces", namespace, resource_type, resource_name>>,
     query |-> request_args]

\* watch_resource's URL: the path segments after the API root, and the query.
watch_url(namespace, resource_type, resource_name, request_args) ==
    [path |-> <<"watch", "namespaces", namespace, resource_type>>
              \o (IF resource_name # "None" THEN <<resource_name>> ELSE <<>>),
     query |-> request_args]

\* The URL of an attempt taken from the last pair yielded: the watch resumes
\* after it.
url_for_attempt_resumes(u, ys) ==
    IF ys = <<>> THEN u
    ELSE [u EXCEPT !.query =
             [resourceVersion |-> ys[Len(ys)].object.resourceVersion]]

\* watch_resource: url is built once, before `while True`, and every attempt
\* of the loop passes it to _get, whatever has been yielded since.
url_for_attempt(u, ys) == u

\* watch_resource's request: self._get(url, stream=True,
\* headers={'Connection': 'close'})
watch_request(u) ==
    [method |-> <<"g", "e", "t">>, url |-> u, stream |-> TRUE,
     headers |-> {<<"Connection", "close">>}]

\* The kinds osbs.constants names (WATCH_MODIFIED, WATCH_DELETED, WATCH_ERROR)
\* and "added".
RecognisedKinds == {Lower(S_ADDED), Lower(S_MODIFIED), Lower(S_DELETED),
                    Lower(S_ERROR)}

\* watch_line with a filter on the kind: a type outside the four is skipped.
watch_line_known_kinds(line) ==
    CASE line.json = "null" ->
           [act |-> "raise", exc |-> "TypeError", kind |-> <<>>, object |-> ObjNull]
      [] line.json = "dict" /\ line.hasObject /\ line.hasType /\ ~line.typeIsStr ->
           [act |-> "raise", exc |-> "AttributeError", kind |-> <<>>,
            object |-> ObjNull]
      [] line.json = "dict" /\ line.hasObject /\ line.hasType /\ line.typeIsStr
         /\ Lower(line.type) \in RecognisedKinds ->
           [act |-> "yield", exc |-> "none", kind |-> Lower(line.type),
            object |-> line.object]
      [] OTHER ->
           [act |-> "skip", exc |-> "none", kind |-> <<>>, object |-> ObjNull]

\* The body of watch_resource's for loop on one line: skip it, yield a
\* (kind, object) pair, or raise.
watch_line(line) ==
    CASE line.json = "invalid" ->
           [act |-> "skip", exc |-> "none", kind |-> <<>>, object |-> ObjNull]
      [] line.json = "null" ->
           \* 'object' not in None: argument of type 'NoneType' is not iterable
           [act |-> "raise", exc |-> "TypeError", kind |-> <<>>, object |-> ObjNull]
      [] line.json = "list" ->
           [act |-> "skip", exc |-> "none", kind |-> <<>>, object |-> ObjNull]
      [] line.json = "dict" /\ ~line.hasObject ->
           [act |-> "skip", exc |-> "none", kind |-> <<>>, object |-> ObjNull]
      [] line.json = "dict" /\ line.hasObject /\ ~line.hasType ->
           [act |-> "skip", exc |-> "none", kind |-> <<>>, object |-> ObjNull]
      [] line.json = "dict" /\ line.hasObject /\ line.hasType /\ ~line.typeIsStr ->
           \* j['type'].lower(): 'int' object has no attribute 'lower'
           [act |-> "raise", exc |-> "AttributeError", kind |-> <<>>,
            object |-> ObjNull]
      [] OTHER ->
           [act |-> "yield", exc |-> "none", kind |-> Lower(line.type),
            object |-> line.object]

\* wait_event without the name test.
wait_event_any_name(obj, build_id, states) ==
    CASE ~obj.isDict -> "TypeError"
      [] obj.isDict /\ ~(obj.hasName /\ obj.hasPhase) -> "continue"
      [] OTHER -> IF Lower(obj.phase) \in states THEN "return" ELSE "continue"

\* wait_event comparing the phase as it is, not lower-cased.
wait_event_exact_case(obj, build_id, states) ==
    CASE ~obj.isDict -> "TypeError"
      [] obj.isDict /\ ~(obj.hasName /\ obj.hasPhase) -> "continue"
      [] OTHER ->
           IF obj.name = build_id /\ obj.phase \in states
           THEN "return" ELSE "continue"

\* wait_event returning at the first pair of the build, whatever its phase.
wait_event_first_match(obj, build_id, states) ==
    CASE ~obj.isDict -> "TypeError"
      [] obj.isDict /\ ~(obj.hasName /\ obj.hasPhase) -> "continue"
      [] OTHER -> IF obj.name = build_id THEN "return" ELSE "continue"

\* The body of wait's for loop on one (changetype, obj) pair: "continue",
\* "return" (obj is the result), or the exception it raises.
wait_event(obj, build_id, states) ==
    CASE ~obj.isDict -> "TypeError"       \* obj["metadata"] on a non-dict
      [] obj.isDict /\ ~obj.hasName -> "continue"
      [] obj.isDict /\ obj.hasName /\ ~obj.hasPhase -> "continue"
      [] OTHER ->
           IF obj.name = build_id
           THEN IF Lower(obj.phase) \in states THEN "return" ELSE "continue"
           ELSE "continue"

\* A reconnection attempt that fails is followed by the backoff.
AfterFailedAttempt_absorbed(n) == IF n > 1 THEN "backoff" ELSE "raised"

\* Where watch_resource goes when _get or check_response raises on its n-th
\* connection attempt: there is no except clause, the exception leaves the
\* generator.
AfterFailedAttempt(n) == "raised"

\* The generator returns when the connection's lines are exhausted.
AfterExhaustion_stops == "stopped"

\* Where watch_resource goes when iter_lines is exhausted: out of the with
\* block, to the sleep at the end of the while True body.
AfterExhaustion == "backoff"

\* range(1, 10) stopping one short.
RetryStop_short == 10 - 1

\* wait_for_build_to_finish: for retry in range(1, 10)
RetryStop == 10

\* except Exception: every error of wait is retried.
retried_any(exc) == TRUE

\* wait_for_build_to_finish: the except clause, which errors of wait it
\* catches and retries
retried(exc) == exc = "OsbsWatchBuildNotFound"

\* int(): truncation towards zero of a time given in ticks, to seconds.
int_seconds(ticks) ==
    IF ticks >= 0 THEN ticks \div TicksPerSecond
    ELSE -((-ticks) \div TicksPerSecond)

\* sinceSeconds without the one second of margin.
since_seconds_no_margin(idle) == int_seconds(idle)

\* stream_logs: since = int(idle - 1), idle in ticks
since_seconds(idle) == int_seconds(idle - 1 * TicksPerSecond)

\* idle measured from the connection's response when that came after the
\* last line.
idle_time_since_response(t, last, response_at) ==
    t - (IF response_at > last THEN response_at ELSE last)

\* stream_logs: idle = time.time() - last_activity, last_activity assigned
\* before the loop and in the body of `for line in response.iter_lines()`
idle_time(t, last, response_at) == t - last

\* stream_logs giving up below the 30 s of the watch's backoff.
gives_up_below_backoff(idle) == idle < BackoffSeconds * TicksPerSecond

\* stream_logs: if idle < min_idle_timeout: return
gives_up(idle) == idle < min_idle_timeout * TicksPerSecond

\* stream_logs' query arguments
LogKwargs(hasSince, since) ==
    [follow |-> 1, hasSince |-> hasSince, sinceSeconds |-> since]

\* How long a blocking call may take, in ticks: no time, 30 s, 30 s and a
\* tick, a tick short of 60 s.
Delays == {0, 30 * TicksPerSecond, 30 * TicksPerSecond + 1,
           60 * TicksPerSecond - 1}

\* What wait may do when wait_for_build_to_finish calls it: return an object
\* of the build in a finished phase, or raise.
WaitReturn(o) == [kind |-> "return", exc |-> "none", obj |-> o]
WaitRaise(e) == [kind |-> "raise", exc |-> e, obj |-> ObjNull]
WaitOutcomes(b) ==
    {WaitReturn(Obj(b, ph)) : ph \in {S_Complete, S_Failed, S_Cancelled}}
    \cup {WaitRaise(e) : e \in {"OsbsWatchBuildNotFound", "OsbsResponseException",
                               "OsbsNetworkException", "OsbsException"}}

\* wait_for_build_to_finish: self.wait(build_id, BUILD_FINISHED_STATES)
finished_states == Range(BUILD_FINISHED_STATES)

\* wait-until-scheduled accepting the running phases alone.
scheduled_states_running_only == Range(BUILD_RUNNING_STATES)

\* wait_for_build_to_get_scheduled:
\* self.wait(build_id, BUILD_FINISHED_STATES + BUILD_RUNNING_STATES)
scheduled_states == Range(BUILD_FINISHED_STATES \o BUILD_RUNNING_STATES)

\* wait falling off the end of its loop: it returns None.
wait_after_loop_returns_none == WaitReturn(ObjNull)

\* wait, after its for loop: raise OsbsWatchBuildNotFound(...)
wait_after_loop == WaitRaise("OsbsWatchBuildNotFound")

\* -------------------------------------------------------------------- state
VARIABLES
    consumer,    \* who iterates watch_resource: "plain", "wait", or
                 \* "build_wait" (wait called by a wait_for_build_to_... method)
    wpc,         \* where the watch_resource generator stands
    url,         \* the URL built before the loop
    attempts,    \* every _get of the watch so far: [at, url, request, status,
                 \* error]
    wopen,       \* the attempts whose HttpStream is open
    lines,       \* every line iter_lines has delivered: [conn, line]
    yielded,     \* every pair handed to the consumer: [src, kind, object]
    exhausted,   \* every end of a line sequence: [conn, at]
    wexc,        \* the exception that left the generator, or "none"
    now,         \* the clock, in ticks
    build_id,    \* wait's argument
    states,      \* wait's argument
    wait_pc,     \* "idle", "watching", "returned", "raised"
    wait_seen,   \* how many pairs wait's loop body has run on
    wait_result, \* the object wait returned
    wait_exc,    \* the exception wait raised, or "none"
    fpc,         \* wait_for_build_to_finish: "idle", "loop", "returned", "raised"
    retry,       \* its loop variable
    calls,       \* what each call of wait did, in order
    fresult,     \* the object it returned
    fexc,        \* the exception it raised, or "none"
    lpc,         \* where the stream_logs generator stands
    kwargs,      \* its query arguments
    last_activity, \* its last_activity, in ticks
    lreqs,       \* every _get of the log: [at, kwargs, status, error]
    lyields,     \* every line handed to the consumer: [at, conn]
    lends,       \* every end of a log connection's lines: [at, conn, nyields]
    lopen,       \* the log requests whose HttpStream is open
    lexc,        \* the exception that left stream_logs, or "none"
    hpc,         \* HttpSession.request: "idle", "call", "returned", "raised"
    hcall,       \* its arguments: [method, stream, kerberos_auth]
    henv,        \* the installation: [kerberos, requests26]
    hwire,       \* every session.request made: [method, outcome]
    hret,        \* what request returned: [kind, status, content]
    hexc,        \* what request raised: [type, cause, status_code]
    hs,          \* the HttpStream: [exists, closed, hasReq]
    hit,         \* the iter_lines generator: "none", "fresh", "suspended",
                 \* "finished", "raised"
    hemit,       \* every line iter_lines has yielded: [closed]
    api_pc,      \* logs: "idle", "get_build", "wait", "dispatch", "returned",
                 \* "raised"
    api_args,    \* its arguments: [follow, wait_if_missing]
    api_build,   \* its build_json, ObjNull for None
    api_waited,  \* wait_for_build_to_get_scheduled has returned
    api_ret,     \* what it returned: "none", "None", "generator", "content"
    api_exc,     \* what it raised, or "none"
    rpc,         \* a call on a response object: "idle", "ready", "done"
    resp,        \* the response object: [kind, status, body]
    rcall,       \* the call: [fn, check]
    rout,        \* its outcome: [kind, type, status_code, value]
    client,      \* the Openshift object two operations run on:
                 \* [use_auth, token]
    ops,         \* the two operations' local variables, by operation
    clock,       \* time.time() for the two operations, in ticks
    tpc,         \* one request in the transport: "idle", "attempt",
                 \* "returned", "raised"
    tcfg,        \* [retries_disabled]
    ttries,      \* the outcome of every attempt sent: a response, or a
                 \* failed connection
    tleft,       \* the retries left (Retry.total)
    tres,        \* the response returned or the exception raised
    acl,         \* an Openshift object's authentication fields: [use_auth,
                 \* token, credentials, client_cert, client_key], and
                 \* kerberos: requests_kerberos could be imported
    asent,       \* the HTTP requests its calls have sent: [to, bearer]
    acalls,      \* how many times _get was called on it
    aout,        \* what the last call came to: "none", "response", or the
                 \* exception
    bc_pc,       \* wait_for_new_build_config_instance: "idle", "watching",
                 \* "returned", "raised"
    bc_args,     \* its arguments: [build_config_id, prev_version]
    bc_seen,     \* the pairs its loop body has run on
    bc_ret,      \* what it returned: [id, version] for '<id>-<version>'
    bc_exc,      \* what it raised: [type, status_code]
    im_pc,       \* import_image: "idle", "get", "put", "watching", "returned",
                 \* "raised"
    im_stream,   \* the ImageStream its first request read
    im_seen,     \* the pairs its loop body has run on
    im_ret,      \* what it returned: "none", "True", "False"
    im_exc       \* what it raised, or "none"

watchVars == <<consumer, wpc, url, attempts, wopen, lines, yielded, exhausted,
               wexc, now>>
waitVars == <<build_id, states, wait_pc, wait_seen, wait_result, wait_exc>>

finishVars == <<fpc, retry, calls, fresult, fexc>>
logVars == <<lpc, kwargs, last_activity, lreqs, lyields, lends, lopen, lexc>>

httpVars == <<hpc, hcall, henv, hwire, hret, hexc, hs, hit, hemit>>

apiVars == <<api_pc, api_args, api_build, api_waited, api_ret, api_exc>>

respVars == <<rpc, resp, rcall, rout>>

\* the variables of the operations modelled on their own
twoVars == <<client, ops, clock>>
retryVars == <<tpc, tcfg, ttries, tleft, tres>>
authVars == <<acl, asent, acalls, aout>>
bcVars == <<bc_pc, bc_args, bc_seen, bc_ret, bc_exc>>
imVars == <<im_pc, im_stream, im_seen, im_ret, im_exc>>
lateVars == <<imVars>>
extVars == <<respVars, twoVars, retryVars, authVars, bcVars, lateVars>>

vars == <<watchVars, waitVars, finishVars, logVars, httpVars, apiVars, extVars>>

Cur == Len(attempts)

LinesFor(c) ==
    CASE c = "wait" -> WaitLines
      [] c = "build_wait" -> PhaseLines
      [] c = "bc_wait" -> BcLines
      [] c = "import" -> ImLines
      [] c = "kind_wait" -> KindLines
      [] OTHER -> WatchLines

IsWait == consumer \in {"wait", "build_wait", "kind_wait"}

WatchInit(c, u) ==
    /\ consumer = c
    /\ wpc = "connect"
    /\ url = u
    /\ attempts = <<>>
    /\ wopen = {}
    /\ lines = <<>>
    /\ yielded = <<>>
    /\ exhausted = <<>>
    /\ wexc = "none"
    /\ now = 0

WaitIdle ==
    /\ build_id = "None"
    /\ states = {}
    /\ wait_pc = "idle"
    /\ wait_seen = 0
    /\ wait_result = ObjNull
    /\ wait_exc = "none"

FinishIdle ==
    /\ fpc = "idle"
    /\ retry = 0
    /\ calls = <<>>
    /\ fresult = ObjNull
    /\ fexc = "none"

LogsIdle ==
    /\ lpc = "idle"
    /\ kwargs = LogKwargs(FALSE, 0)
    /\ last_activity = 0
    /\ lreqs = <<>>
    /\ lyields = <<>>
    /\ lends = <<>>
    /\ lopen = {}
    /\ lexc = "none"

NoReturn == [kind |-> "none", status |-> 0, headers |-> "none", content |-> "none"]
StatusNone == [kind |-> "none", code |-> 0]
NoException == [type |-> "none", cause |-> "none", status_code |-> StatusNone]
NoStream == [exists |-> FALSE, closed |-> FALSE, hasReq |-> FALSE,
             interrupted |-> FALSE]

HttpIdle ==
    /\ hpc = "idle"
    /\ hcall = [method |-> <<>>, stream |-> FALSE, kerberos_auth |-> FALSE]
    /\ henv = [kerberos |-> FALSE, requests26 |-> FALSE, pep479 |-> FALSE]
    /\ hwire = <<>>
    /\ hret = NoReturn
    /\ hexc = NoException
    /\ hs = NoStream
    /\ hit = "none"
    /\ hemit = <<>>

NoResponse == [kind |-> "none", status |-> 0, body |-> <<>>]
NoCall == [fn |-> "none", check |-> FALSE]
NoOutcome == [kind |-> "none", type |-> "none", status_code |-> 0, value |-> <<>>]

RespIdle ==
    /\ rpc = "idle"
    /\ resp = NoResponse
    /\ rcall = NoCall
    /\ rout = NoOutcome

TwoIdle ==
    /\ client = [use_auth |-> FALSE, token |-> "None"]
    /\ ops = <<>>
    /\ clock = 0

NoResult == [kind |-> "none", status |-> 0]

RetryIdle ==
    /\ tpc = "idle"
    /\ tcfg = [retries_disabled |-> FALSE]
    /\ ttries = <<>>
    /\ tleft = 0
    /\ tres = NoResult

AuthIdle ==
    /\ acl = [use_auth |-> FALSE, token |-> "None", credentials |-> "none",
              client_cert |-> FALSE, client_key |-> FALSE, kerberos |-> FALSE]
    /\ asent = <<>>
    /\ acalls = 0
    /\ aout = "none"

NoInstance == [id |-> "None", version |-> 0]
NoError == [type |-> "none", status_code |-> 0]

BcIdle ==
    /\ bc_pc = "idle"
    /\ bc_args = [build_config_id |-> "None", prev_version |-> 0]
    /\ bc_seen = 0
    /\ bc_ret = NoInstance
    /\ bc_exc = NoError

NoImageStream == [hasRepo |-> FALSE, hasTags |-> FALSE, tags |-> <<>>]

ImIdle ==
    /\ im_pc = "idle"
    /\ im_stream = NoImageStream
    /\ im_seen = 0
    /\ im_ret = "none"
    /\ im_exc = "none"

LateIdle ==
    /\ ImIdle

ExtIdle ==
    /\ RespIdle
    /\ TwoIdle
    /\ RetryIdle
    /\ AuthIdle
    /\ BcIdle
    /\ LateIdle

ApiIdle ==
    /\ api_pc = "idle"
    /\ api_args = [follow |-> FALSE, wait_if_missing |-> FALSE]
    /\ api_build = ObjNull
    /\ api_waited = FALSE
    /\ api_ret = "none"
    /\ api_exc = "none"

\* --------------------------------------------------------- watch_resource
\* self._get(url, stream=True, headers={'Connection': 'close'})
WatchConnect ==
    /\ wpc = "connect"
    /\ Cur < MaxConns
    /\ \/ \E e \in ConnErrors :
            /\ attempts' = Append(attempts,
                   [at |-> now, url |-> url_for_attempt(url, yielded),
                    request |-> watch_request(url_for_attempt(url, yielded)),
                    status |-> 0, error |-> e])
            /\ wpc' = AfterFailedAttempt(Cur + 1)
            /\ wexc' = IF AfterFailedAttempt(Cur + 1) = "raised" THEN e ELSE wexc
            /\ UNCHANGED wopen
       \/ \E s \in WatchStatuses :
            /\ attempts' = Append(attempts,
                   [at |-> now, url |-> url_for_attempt(url, yielded),
                    request |-> watch_request(url_for_attempt(url, yielded)),
                    status |-> s, error |-> "none"])
            /\ wopen' = wopen \cup {Cur + 1}
            /\ wpc' = "check"
            /\ UNCHANGED wexc
    /\ UNCHANGED <<consumer, url, lines, yielded, exhausted, now, waitVars, finishVars, httpVars, apiVars, extVars, logVars>>

\* check_response(response), inside the with block
WatchCheck ==
    /\ wpc = "check"
    /\ IF check_response(attempts[Cur].status) = "ok"
       THEN /\ wpc' = "read"
            /\ UNCHANGED <<wopen, wexc>>
       ELSE /\ wpc' = AfterFailedAttempt(Cur)
            /\ wexc' = IF AfterFailedAttempt(Cur) = "raised"
                       THEN check_response(attempts[Cur].status) ELSE wexc
            /\ wopen' = close(wopen, Cur)
    /\ UNCHANGED <<consumer, url, attempts, lines, yielded, exhausted, now,
                   waitVars, finishVars, httpVars, apiVars, extVars, logVars>>

\* iter_lines delivers a line and the loop body runs on it
WatchReadLine ==
    /\ wpc = "read"
    /\ Len(lines) < MaxLines
    /\ \E l \in LinesFor(consumer) :
         LET r == watch_line(l) IN
         /\ lines' = Append(lines, [conn |-> Cur, line |-> l])
         /\ CASE r.act = "skip" ->
                   UNCHANGED <<wpc, yielded, wopen, wexc>>
              [] r.act = "yield" ->
                   /\ yielded' = Append(yielded,
                          [src |-> Len(lines) + 1, kind |-> r.kind,
                           object |-> r.object])
                   /\ wpc' = "yielded"
                   /\ UNCHANGED <<wopen, wexc>>
              [] OTHER ->
                   /\ wpc' = "raised"
                   /\ wexc' = r.exc
                   /\ wopen' = close(wopen, Cur)
                   /\ UNCHANGED yielded
    /\ UNCHANGED <<consumer, url, attempts, exhausted, now, waitVars, finishVars, httpVars, apiVars, extVars, logVars>>

\* iter_lines is exhausted: the server closed the connection, or a read
\* error was swallowed by HttpStream.iter_lines; the with block is left
WatchEndOfLines ==
    /\ wpc = "read"
    /\ exhausted' = Append(exhausted, [conn |-> Cur, at |-> now])
    /\ wopen' = close(wopen, Cur)
    /\ wpc' = AfterExhaustion
    /\ UNCHANGED <<consumer, url, attempts, lines, yielded, wexc, now, waitVars, finishVars, httpVars, apiVars, extVars, logVars>>

\* time.sleep(30)
WatchSleep ==
    /\ wpc = "backoff"
    /\ now' = now + BackoffSeconds * TicksPerSecond
    /\ wpc' = "connect"
    /\ UNCHANGED <<consumer, url, attempts, wopen, lines, yielded, exhausted,
                   wexc, waitVars, finishVars, httpVars, apiVars, extVars, logVars>>

\* a plain consumer asks for the next pair
ConsumerNext ==
    /\ consumer = "plain"
    /\ wpc = "yielded"
    /\ wpc' = "read"
    /\ UNCHANGED <<consumer, url, attempts, wopen, lines, yielded, exhausted,
                   wexc, now, waitVars, finishVars, httpVars, apiVars, extVars, logVars>>

\* a plain consumer stops iterating: the generator is closed at its yield,
\* GeneratorExit leaves the with block
ConsumerAbandon ==
    /\ consumer = "plain"
    /\ wpc = "yielded"
    /\ wpc' = "closed"
    /\ wopen' = close(wopen, Cur)
    /\ UNCHANGED <<consumer, url, attempts, lines, yielded, exhausted, wexc, now,
                   waitVars, finishVars, httpVars, apiVars, extVars, logVars>>

\* The arguments of the watches a plain consumer runs.
WatchArgs ==
    {<<"builds", "None", "">>, <<"imagestreams", "is1", "resourceVersion=7">>}

Init ==
    /\ \E a \in WatchArgs :
         WatchInit("plain", watch_url("default", a[1], a[2], a[3]))
    /\ WaitIdle
    /\ FinishIdle
    /\ LogsIdle
    /\ HttpIdle
    /\ ApiIdle
    /\ ExtIdle

Next ==
    \/ WatchConnect
    \/ WatchCheck
    \/ WatchReadLine
    \/ WatchEndOfLines
    \/ WatchSleep
    \/ ConsumerNext
    \/ ConsumerAbandon

Spec == Init /\ [][Next]_vars

\* --------------------------------------------------------------------- wait
\* the body of wait's for loop on the pair the generator has just yielded
WaitEvent ==
    /\ IsWait
    /\ wait_pc = "watching"
    /\ wpc = "yielded"
    /\ LET obj == yielded[Len(yielded)].object
           d == wait_event(obj, build_id, states)
       IN  /\ wait_seen' = wait_seen + 1
           /\ CASE d = "continue" ->
                     /\ wpc' = "read"
                     /\ UNCHANGED <<wait_pc, wait_result, wait_exc>>
                [] d = "return" ->
                     /\ wait_pc' = "returned"
                     /\ wait_result' = obj
                     /\ UNCHANGED <<wpc, wait_exc>>
                [] OTHER ->
                     /\ wait_pc' = "raised"
                     /\ wait_exc' = d
                     /\ UNCHANGED <<wpc, wait_result>>
    /\ UNCHANGED <<consumer, url, attempts, wopen, lines, yielded, exhausted,
                   wexc, now, build_id, states, finishVars, httpVars, apiVars, extVars, logVars>>

\* the for loop ends: an exception of the generator passes through wait, and
\* an exhausted generator reaches the raise after the loop
WaitLoopEnds ==
    /\ IsWait
    /\ wait_pc = "watching"
    /\ wpc \in {"raised", "stopped"}
    /\ IF wpc = "raised"
       THEN /\ wait_pc' = "raised"
            /\ wait_exc' = wexc
            /\ UNCHANGED wait_result
       ELSE IF wait_after_loop.kind = "raise"
       THEN /\ wait_pc' = "raised"
            /\ wait_exc' = wait_after_loop.exc
            /\ UNCHANGED wait_result
       ELSE /\ wait_pc' = "returned"
            /\ wait_result' = wait_after_loop.obj
            /\ UNCHANGED wait_exc
    /\ UNCHANGED <<watchVars, build_id, states, wait_seen,
                   finishVars, httpVars, apiVars, extVars, logVars>>

\* wait has left its loop with the generator suspended at its yield: the
\* generator object is unreferenced and finalised, which closes it
WaitGeneratorDropped ==
    /\ IsWait
    /\ wait_pc \in {"returned", "raised"}
    /\ wpc = "yielded"
    /\ wpc' = "closed"
    /\ wopen' = close(wopen, Cur)
    /\ UNCHANGED <<consumer, url, attempts, lines, yielded, exhausted, wexc, now,
                   waitVars, finishVars, httpVars, apiVars, extVars, logVars>>

InitWait ==
    /\ \E b \in BuildIds, st \in StateSets :
         /\ build_id = b
         /\ states = st
         /\ WatchInit("wait", watch_url("default", "builds", b, ""))
    /\ wait_pc = "watching"
    /\ wait_seen = 0
    /\ wait_result = ObjNull
    /\ wait_exc = "none"
    /\ FinishIdle
    /\ LogsIdle
    /\ HttpIdle
    /\ ApiIdle
    /\ ExtIdle

NextWait ==
    \/ WatchConnect
    \/ WatchCheck
    \/ WatchReadLine
    \/ WatchEndOfLines
    \/ WatchSleep
    \/ WaitEvent
    \/ WaitLoopEnds
    \/ WaitGeneratorDropped

SpecWait == InitWait /\ [][NextWait]_vars

\* wait as wait_for_build_to_finish and wait_for_build_to_get_scheduled call
\* it, on the watch of a build going through its phases.
InitScheduled ==
    /\ \E b \in BuildIds, st \in {finished_states, scheduled_states} :
         /\ build_id = b
         /\ states = st
         /\ WatchInit("build_wait", watch_url("default", "builds", b, ""))
    /\ wait_pc = "watching"
    /\ wait_seen = 0
    /\ wait_result = ObjNull
    /\ wait_exc = "none"
    /\ FinishIdle
    /\ LogsIdle
    /\ HttpIdle
    /\ ApiIdle
    /\ ExtIdle

SpecScheduled == InitScheduled /\ [][NextWait]_vars

\* wait over a sequence of pairs that can end: what self.watch_resource
\* returns is taken as any iterable, one that yields pairs and may stop.
\* The iterable yields its next pair.
EventsYield ==
    /\ IsWait
    /\ wait_pc = "watching"
    /\ wpc = "read"
    /\ Len(lines) < MaxLines
    /\ \E l \in WaitLines :
         /\ watch_line(l).act = "yield"
         /\ lines' = Append(lines, [conn |-> Cur, line |-> l])
         /\ yielded' = Append(yielded,
                [src |-> Len(lines) + 1, kind |-> watch_line(l).kind,
                 object |-> watch_line(l).object])
    /\ wpc' = "yielded"
    /\ UNCHANGED <<consumer, url, attempts, wopen, exhausted, wexc, now,
                   waitVars, finishVars, httpVars, apiVars, extVars, logVars>>

\* The iterable is exhausted: the for statement ends.
EventsEnd ==
    /\ IsWait
    /\ wait_pc = "watching"
    /\ wpc = "read"
    /\ wpc' = "stopped"
    /\ UNCHANGED <<consumer, url, attempts, wopen, lines, yielded, exhausted,
                   wexc, now, waitVars, finishVars, httpVars, apiVars, extVars, logVars>>

InitWaitEnds ==
    /\ \E b \in BuildIds, st \in StateSets :
         /\ build_id = b
         /\ states = st
         /\ url = watch_url("default", "builds", b, "")
    /\ consumer = "wait"
    /\ wpc = "read"
    /\ attempts = <<>>
    /\ wopen = {}
    /\ lines = <<>>
    /\ yielded = <<>>
    /\ exhausted = <<>>
    /\ wexc = "none"
    /\ now = 0
    /\ wait_pc = "watching"
    /\ wait_seen = 0
    /\ wait_result = ObjNull
    /\ wait_exc = "none"
    /\ FinishIdle
    /\ LogsIdle
    /\ HttpIdle
    /\ ApiIdle
    /\ ExtIdle

NextWaitEnds ==
    \/ EventsYield
    \/ EventsEnd
    \/ WaitEvent
    \/ WaitLoopEnds

SpecWaitEnds == InitWaitEnds /\ [][NextWaitEnds]_vars

\* ------------------------------------------------- wait_for_build_to_finish
\* one turn of the for loop: wait is called and returns or raises
FinishCallWait ==
    /\ fpc = "loop"
    /\ \E w \in WaitOutcomes(build_id) :
         /\ calls' = Append(calls, w)
         /\ CASE w.kind = "return" ->
                   /\ fpc' = "returned"
                   /\ fresult' = w.obj
                   /\ UNCHANGED <<retry, fexc>>
              [] w.kind = "raise" /\ retried(w.exc) ->
                   IF retry + 1 < RetryStop
                   THEN /\ retry' = retry + 1
                        /\ UNCHANGED <<fpc, fresult, fexc>>
                   ELSE \* the loop is over: raise OsbsException("Failed to wait ...")
                        /\ fpc' = "raised"
                        /\ fexc' = "OsbsException: Failed to wait for a build"
                        /\ UNCHANGED <<retry, fresult>>
              [] OTHER ->
                   /\ fpc' = "raised"
                   /\ fexc' = w.exc
                   /\ UNCHANGED <<retry, fresult>>
    /\ UNCHANGED <<watchVars, waitVars, logVars, httpVars, apiVars, extVars>>

InitFinish ==
    /\ \E b \in BuildIds :
         /\ build_id = b
         /\ WatchInit("none", watch_url("default", "builds", b, ""))
    /\ states = {}
    /\ wait_pc = "idle"
    /\ wait_seen = 0
    /\ wait_result = ObjNull
    /\ wait_exc = "none"
    /\ fpc = "loop"
    /\ retry = RetryFirst
    /\ calls = <<>>
    /\ fresult = ObjNull
    /\ fexc = "none"
    /\ LogsIdle
    /\ HttpIdle
    /\ ApiIdle
    /\ ExtIdle

NextFinish == FinishCallWait

SpecFinish == InitFinish /\ [][NextFinish]_vars

\* --------------------------------------------------------------- stream_logs
\* response = self._get(buildlogs_url, stream=1, ...), which blocks for d
LogsRequest ==
    /\ lpc = "request"
    /\ Len(lreqs) < MaxLogConns
    /\ \E d \in Delays :
         /\ now + d <= MaxTime
         /\ now' = now + d
         /\ \/ \E e \in ConnErrors :
                 /\ lreqs' = Append(lreqs, [at |-> now + d, kwargs |-> kwargs,
                                            status |-> 0, error |-> e,
                                            body |-> <<>>])
                 /\ lpc' = "raised"
                 /\ lexc' = e
                 \* response is not rebound: the previous stream stays
                 /\ UNCHANGED lopen
            \/ \E st \in Statuses, body \in ErrorBodies :
                 /\ lreqs' = Append(lreqs, [at |-> now + d, kwargs |-> kwargs,
                                            status |-> st, error |-> "none",
                                            body |-> log_body(st, body)])
                 /\ lpc' = "check"
                 \* response is rebound once _get has returned: the last
                 \* reference to the previous stream goes, __del__ closes it
                 /\ lopen' = close(lopen, Len(lreqs)) \cup {Len(lreqs) + 1}
                 /\ UNCHANGED lexc
    /\ UNCHANGED <<consumer, wpc, url, attempts, wopen, lines, yielded, exhausted,
                   wexc, waitVars, finishVars, httpVars, apiVars, extVars, kwargs, last_activity, lyields,
                   lends>>

\* check_response(response)
LogsCheck ==
    /\ lpc = "check"
    /\ LET r == [kind |-> "HttpStream", status |-> lreqs[Len(lreqs)].status,
                 body |-> lreqs[Len(lreqs)].body]
       IN  IF check_response_raise(r).kind = "return"
           THEN /\ lpc' = "read"
                /\ UNCHANGED lexc
           ELSE /\ lpc' = "raised"
                /\ lexc' = check_response_raise(r).type
    /\ UNCHANGED <<watchVars, waitVars, finishVars, httpVars, apiVars, extVars, kwargs, last_activity, lreqs,
                   lyields, lends, lopen>>

\* iter_lines delivers a line after d: last_activity = time.time(); yield line
LogsReadLine ==
    /\ lpc = "read"
    /\ Len(lyields) < MaxLogLines
    /\ \E d \in Delays :
         /\ now + d <= MaxTime
         /\ now' = now + d
         /\ last_activity' = now + d
         /\ lyields' = Append(lyields, [at |-> now + d, conn |-> Len(lreqs)])
    /\ lpc' = "yielded"
    /\ UNCHANGED <<consumer, wpc, url, attempts, wopen, lines, yielded, exhausted,
                   wexc, waitVars, finishVars, httpVars, apiVars, extVars, kwargs, lreqs, lends, lopen, lexc>>

\* the consumer asks for the next line
LogsNext ==
    /\ lpc = "yielded"
    /\ lpc' = "read"
    /\ UNCHANGED <<watchVars, waitVars, finishVars, httpVars, apiVars, extVars, kwargs, last_activity, lreqs,
                   lyields, lends, lopen, lexc>>

\* the consumer stops iterating: the generator is closed at its yield and
\* its frame, the last holder of response, goes; __del__ closes the stream
LogsAbandon ==
    /\ lpc = "yielded"
    /\ lpc' = "closed"
    /\ lopen' = close(lopen, Len(lreqs))
    /\ UNCHANGED <<watchVars, waitVars, finishVars, httpVars, apiVars, extVars, kwargs, last_activity, lreqs,
                   lyields, lends, lexc>>

\* iter_lines ends after d (the server closed the connection, a read error
\* was swallowed, IncompleteRead was caught): idle decides
LogsEnd ==
    /\ lpc = "read"
    /\ \E d \in Delays :
         LET idle == idle_time(now + d, last_activity, lreqs[Len(lreqs)].at) IN
         /\ now + d <= MaxTime
         /\ now' = now + d
         /\ lends' = Append(lends, [at |-> now + d, conn |-> Len(lreqs),
                                    nyields |-> Len(lyields)])
         /\ IF gives_up(idle)
            THEN \* return: the generator's frame goes, and response with it
                 /\ lpc' = "done"
                 /\ lopen' = close(lopen, Len(lreqs))
                 /\ UNCHANGED kwargs
            ELSE \* iter_lines does not close the stream, and response
                 \* still refers to it when the loop body starts again
                 /\ lpc' = "request"
                 /\ kwargs' = LogKwargs(TRUE, since_seconds(idle))
                 /\ UNCHANGED lopen
    /\ UNCHANGED <<consumer, wpc, url, attempts, wopen, lines, yielded, exhausted,
                   wexc, waitVars, finishVars, httpVars, apiVars, extVars, last_activity, lreqs, lyields, lexc>>

InitLogs ==
    /\ \E b \in BuildIds :
         /\ build_id = b
         /\ WatchInit("none", watch_url("default", "builds", b, ""))
    /\ states = {}
    /\ wait_pc = "idle"
    /\ wait_seen = 0
    /\ wait_result = ObjNull
    /\ wait_exc = "none"
    /\ FinishIdle
    /\ HttpIdle
    /\ ApiIdle
    /\ ExtIdle
    /\ lpc = "request"
    /\ kwargs = LogKwargs(FALSE, 0)
    /\ last_activity = 0
    /\ lreqs = <<>>
    /\ lyields = <<>>
    /\ lends = <<>>
    /\ lopen = {}
    /\ lexc = "none"

NextLogs ==
    \/ LogsRequest
    \/ LogsCheck
    \/ LogsReadLine
    \/ LogsNext
    \/ LogsAbandon
    \/ LogsEnd

SpecLogs == InitLogs /\ [][NextLogs]_vars

\* ------------------------------------------------ HttpSession, HttpStream
M_get    == <<"g","e","t">>
M_GET    == <<"G","E","T">>
M_post   == <<"p","o","s","t">>
M_put    == <<"p","u","t">>
M_delete == <<"d","e","l","e","t","e">>
M_patch  == <<"p","a","t","c","h">>
M_HEAD   == <<"H","E","A","D">>

\* The methods request is called with.
Methods == {M_get, M_GET, M_post, M_put, M_delete, M_patch, M_HEAD}

\* Every method passes.
method_supported_all(method) == TRUE

\* HttpStream.__init__: method = method.lower();
\* if method not in ['post', 'get', 'put', 'delete']: raise RuntimeError
method_supported(method) == Lower(method) \in {M_post, M_get, M_put, M_delete}

\* What HttpStream.__init__ raises before it calls session.request, or "none".
init_error(call, env) ==
    IF ~method_supported(call.method)
    THEN "RuntimeError: Unsupported method"
    ELSE IF call.kerberos_auth /\ ~env.kerberos
         THEN "RuntimeError: Kerberos auth unavailable"
         ELSE "none"

\* What session.request does: it returns a response, or raises an exception of
\* requests.  responseError: a RetryError's args[0].reason is a ResponseError;
\* matches: its message reads "too many <status> error responses".
\* headers: the response's Content-Type, standing for its headers.
ResponseHeaders == {"application/json", "text/plain"}
NetResponse(status, headers) ==
    [kind |-> "response", type |-> "none", responseError |-> FALSE,
     matches |-> FALSE, status |-> status, headers |-> headers]
NetError(type, responseError, matches, status) ==
    [kind |-> "error", type |-> type, responseError |-> responseError,
     matches |-> matches, status |-> status, headers |-> "none"]
NetOutcomes ==
    {NetResponse(st, hd) : st \in Statuses, hd \in ResponseHeaders}
    \cup {NetError("HTTPError", FALSE, FALSE, 500),
          NetError("RetryError", TRUE, TRUE, 500),
          NetError("RetryError", TRUE, FALSE, 0),
          NetError("RetryError", FALSE, FALSE, 0),
          NetError("ConnectionError", FALSE, FALSE, 0),
          NetError("Timeout", FALSE, FALSE, 0)}

\* The status_code handed to OsbsNetworkException: an int, '' or never bound
\* (StatusNone: the exception takes no status_code).
StatusInt(n) == [kind |-> "int", code |-> n]
StatusEmpty == [kind |-> "empty", code |-> 0]
StatusUnbound == [kind |-> "unbound", code |-> 0]

Raised(type, cause, status_code) ==
    [type |-> type, cause |-> cause, status_code |-> status_code]

\* HttpSession.request's two except clauses on an exception ex of requests.
request_except(ex, requests26) ==
    IF ex.type \in {"HTTPError", "RetryError"}
    THEN IF ex.type = "RetryError"
         THEN IF ex.responseError
              THEN IF requests26
                   THEN Raised("OsbsNetworkException", ex.type,
                               IF ex.matches THEN StatusInt(ex.status)
                               ELSE StatusEmpty)
                   ELSE \* status_code is not assigned on this path: the raise
                        \* statement itself fails, inside the except clause
                        Raised("UnboundLocalError", ex.type, StatusUnbound)
              ELSE Raised("OsbsNetworkException", ex.type, StatusEmpty)
         ELSE Raised("OsbsNetworkException", ex.type, StatusInt(ex.status))
    ELSE Raised("OsbsException", ex.type, StatusNone)

\* close leaves the stream as it was.
HttpStream_close_leaves_open(h) == h

\* HttpStream.close on the stream object:
\* if not self.closed: del self.req (when present); self.closed = True
HttpStream_close(h) ==
    IF ~h.closed THEN [h EXCEPT !.closed = TRUE, !.hasReq = FALSE]
    ELSE [h EXCEPT !.closed = TRUE]

\* HttpSession.request(url, method, **kwargs)
HttpSessionRequest ==
    /\ hpc = "call"
    /\ IF init_error(hcall, henv) # "none"
       THEN \* raised by HttpStream.__init__, caught by except Exception
            /\ hpc' = "raised"
            /\ hexc' = Raised("OsbsException", init_error(hcall, henv), StatusNone)
            /\ UNCHANGED <<hwire, hret, hs>>
       ELSE \E net \in NetOutcomes :
            /\ hwire' = Append(hwire, [method |-> Lower(hcall.method),
                                       outcome |-> net])
            /\ IF net.kind = "error"
               THEN /\ hpc' = "raised"
                    /\ hexc' = request_except(net, henv.requests26)
                    /\ UNCHANGED <<hret, hs>>
               ELSE IF hcall.stream
               THEN /\ hpc' = "returned"
                    /\ hret' = [kind |-> "HttpStream", status |-> net.status,
                                headers |-> net.headers, content |-> "unread"]
                    /\ hs' = [exists |-> TRUE, closed |-> FALSE, hasReq |-> TRUE,
                              interrupted |-> FALSE]
                    /\ UNCHANGED hexc
               ELSE \* with stream as s: content = s.req.content
                    /\ hs' = HttpStream_close(
                                [exists |-> TRUE, closed |-> FALSE, hasReq |-> TRUE,
                                 interrupted |-> FALSE])
                    /\ \/ /\ hpc' = "returned"
                          /\ hret' = [kind |-> "HttpResponse", status |-> net.status,
                                      headers |-> net.headers,
                                      content |-> "complete"]
                          /\ UNCHANGED hexc
                       \/ /\ hpc' = "raised"
                          /\ hexc' = request_except(
                                 NetError("ConnectionError", FALSE, FALSE, 0),
                                 henv.requests26)
                          /\ UNCHANGED hret
    /\ UNCHANGED <<watchVars, waitVars, finishVars, logVars, apiVars, extVars, hcall, henv, hit, hemit>>

\* iter_lines: `raise StopIteration` in the body of the generator.  The
\* generator ends there; where generators follow PEP 479 (Python 3.7 on, which
\* http.py's py3 imports admit) the StopIteration is replaced by a
\* RuntimeError that leaves the generator.
raise_StopIteration(env) == IF env.pep479 THEN "raised" ELSE "finished"

\* the caller of a stream-mode request calls response.iter_lines(): a
\* generator object is made, none of its code runs yet
IterLinesCall ==
    /\ hpc = "returned"
    /\ hret.kind = "HttpStream"
    /\ hit = "none"
    /\ hit' = "fresh"
    /\ UNCHANGED <<watchVars, waitVars, finishVars, logVars, apiVars, extVars, hpc, hcall, henv, hwire,
                   hret, hexc, hs, hemit>>

\* next() on the iter_lines generator
IterLinesNext ==
    /\ hit \in {"fresh", "suspended"}
    /\ IF hit = "fresh" /\ ~hs.hasReq
       THEN \* self.req.iter_lines: the attribute was deleted by close
            /\ hit' = "raised"
            /\ hexc' = Raised("AttributeError", "none", StatusNone)
            /\ UNCHANGED <<hemit, hs>>
       ELSE \* the loop over self.req.iter_lines(**kwargs), which holds the
            \* requests response itself from its first next() on
            \/ /\ Len(hemit) < MaxStreamLines
               /\ hemit' = Append(hemit, [closed |-> hs.closed])
               /\ hit' = "suspended"
               /\ UNCHANGED <<hexc, hs>>
            \/ \* the body ends
               /\ hit' = "finished"
               /\ UNCHANGED <<hemit, hexc, hs>>
            \/ \* the read is interrupted: ChunkedEncodingError,
               \* ConnectionError or IncompleteRead is caught
               /\ hs' = [hs EXCEPT !.interrupted = TRUE]
               /\ hit' = raise_StopIteration(henv)
               /\ hexc' = IF raise_StopIteration(henv) = "raised"
                          THEN Raised("RuntimeError", "StopIteration", StatusNone)
                          ELSE hexc
               /\ UNCHANGED hemit
    /\ UNCHANGED <<watchVars, waitVars, finishVars, logVars, apiVars, extVars, hpc, hcall, henv, hwire,
                   hret>>

\* the caller closes the stream: close(), or the end of its with block
HttpStreamClose ==
    /\ hpc = "returned"
    /\ hret.kind = "HttpStream"
    /\ hs' = HttpStream_close(hs)
    /\ UNCHANGED <<watchVars, waitVars, finishVars, logVars, apiVars, extVars, hpc, hcall, henv, hwire,
                   hret, hexc, hit, hemit>>

InitHttp ==
    /\ WatchInit("none", watch_url("default", "builds", "None", ""))
    /\ WaitIdle
    /\ FinishIdle
    /\ LogsIdle
    /\ hpc = "call"
    /\ hcall \in [method : Methods, stream : BOOLEAN, kerberos_auth : BOOLEAN]
    /\ henv \in [kerberos : BOOLEAN, requests26 : BOOLEAN, pep479 : BOOLEAN]
    /\ hwire = <<>>
    /\ hret = NoReturn
    /\ hexc = NoException
    /\ hs = NoStream
    /\ hit = "none"
    /\ hemit = <<>>
    /\ ApiIdle
    /\ ExtIdle

NextHttp ==
    \/ HttpSessionRequest
    \/ IterLinesCall
    \/ IterLinesNext
    \/ HttpStreamClose

SpecHttp == InitHttp /\ [][NextHttp]_vars

\* ---------------------------------------------------------------------- logs
\* The objects a build query or a wait may come back with: the build in each
\* of its phases.
PhaseObjs(b) ==
    {Obj(b, ph) : ph \in {S_New, S_Pending, S_Running, S_Complete, S_Failed,
                          S_Cancelled}}

\* BuildResponse.is_pending: the build's phase is a pending one.
is_pending(o) == Lower(o.phase) \in Range(BUILD_PENDING_STATES)

\* logs waiting for the build only when asked to wait for a missing one.
logs_waits_if_missing_only(follow, wait_if_missing) == wait_if_missing

\* logs: if follow or wait_if_missing:
logs_waits(follow, wait_if_missing) == follow \/ wait_if_missing

\* The query arguments of the log request that does not follow.
NoLogKwargs == [follow |-> 0, hasSince |-> FALSE, sinceSeconds |-> 0]

\* build_json = build_json or self.get_build(build_id).json(), and the
\* except clause around it
LogsGetBuild ==
    /\ api_pc = "get_build"
    /\ \/ \* build_json was passed in: no query
          /\ api_build # ObjNull
          /\ api_pc' = IF logs_waits(api_args.follow, api_args.wait_if_missing)
                       THEN "wait" ELSE "dispatch"
          /\ UNCHANGED <<api_build, api_exc>>
       \/ \* the query answers with the build
          /\ api_build = ObjNull
          /\ \E o \in PhaseObjs(build_id) : api_build' = o
          /\ api_pc' = IF logs_waits(api_args.follow, api_args.wait_if_missing)
                       THEN "wait" ELSE "dispatch"
          /\ UNCHANGED api_exc
       \/ \* 404: the build does not exist
          /\ api_build = ObjNull
          /\ IF api_args.wait_if_missing
             THEN /\ api_pc' = "wait"
                  /\ UNCHANGED api_exc
             ELSE /\ api_pc' = "raised"
                  /\ api_exc' = "OsbsException: Build doesn't exist"
          /\ UNCHANGED api_build
       \/ \* another status, or an error of the request
          /\ api_build = ObjNull
          /\ \E e \in ConnErrors \cup {"OsbsResponseException"} :
               api_exc' = e
          /\ api_pc' = "raised"
          /\ UNCHANGED api_build
    /\ UNCHANGED <<watchVars, waitVars, finishVars, logVars, httpVars, extVars, api_args,
                   api_waited, api_ret>>

\* build_json = self.wait_for_build_to_get_scheduled(build_id): wait returns
\* an object at which its loop body returns, or raises
LogsWaitScheduled ==
    /\ api_pc = "wait"
    /\ \/ \E o \in PhaseObjs(build_id) :
            /\ wait_event(o, build_id, scheduled_states) = "return"
            /\ api_build' = o
            /\ api_waited' = TRUE
            /\ api_pc' = "dispatch"
            /\ UNCHANGED api_exc
       \/ \E e \in ConnErrors \cup {"OsbsResponseException",
                                     "OsbsWatchBuildNotFound"} :
            /\ api_exc' = e
            /\ api_pc' = "raised"
            /\ UNCHANGED <<api_build, api_waited>>
    /\ UNCHANGED <<watchVars, waitVars, finishVars, logVars, httpVars, extVars, api_args,
                   api_ret>>

\* br = BuildResponse(build_json) and the rest of logs
LogsDispatch ==
    /\ api_pc = "dispatch"
    /\ IF is_pending(api_build)
       THEN \* return
            /\ api_pc' = "returned"
            /\ api_ret' = "None"
            /\ UNCHANGED <<api_exc, logVars, now>>
       ELSE IF api_args.follow
       THEN \* return self.stream_logs(build_id): the generator, whose body
            \* starts at the consumer's first next()
            /\ api_pc' = "returned"
            /\ api_ret' = "generator"
            /\ lpc' = "request"
            /\ kwargs' = LogKwargs(FALSE, 0)
            /\ last_activity' = now
            /\ UNCHANGED <<api_exc, lreqs, lyields, lends, lopen, lexc, now>>
       ELSE \* response = self._get(buildlogs_url, ...); check_response;
            \* return response.content
            \E d \in Delays :
            /\ now + d <= MaxTime
            /\ now' = now + d
            /\ \/ \E e \in ConnErrors :
                    /\ lreqs' = Append(lreqs, [at |-> now + d, kwargs |-> NoLogKwargs,
                                               status |-> 0, error |-> e,
                                               body |-> <<>>])
                    /\ api_pc' = "raised"
                    /\ api_exc' = e
                    /\ UNCHANGED api_ret
               \/ \E st \in Statuses :
                    /\ lreqs' = Append(lreqs, [at |-> now + d, kwargs |-> NoLogKwargs,
                                               status |-> st, error |-> "none",
                                               body |-> <<>>])
                    /\ IF check_response(st) = "ok"
                       THEN /\ api_pc' = "returned"
                            /\ api_ret' = "content"
                            /\ UNCHANGED api_exc
                       ELSE /\ api_pc' = "raised"
                            /\ api_exc' = check_response(st)
                            /\ UNCHANGED api_ret
            /\ UNCHANGED <<lpc, kwargs, last_activity, lyields, lends, lopen, lexc>>
    /\ UNCHANGED <<consumer, wpc, url, attempts, wopen, lines, yielded, exhausted,
                   wexc, waitVars, finishVars, httpVars, extVars, api_args, api_build,
                   api_waited>>

InitLogsCall ==
    /\ build_id = "b1"
    /\ WatchInit("none", watch_url("default", "builds", "b1", ""))
    /\ states = {}
    /\ wait_pc = "idle"
    /\ wait_seen = 0
    /\ wait_result = ObjNull
    /\ wait_exc = "none"
    /\ FinishIdle
    /\ LogsIdle
    /\ HttpIdle
    /\ api_pc = "get_build"
    /\ api_args \in [follow : BOOLEAN, wait_if_missing : BOOLEAN]
    /\ api_build \in {ObjNull, Obj("b1", S_New), Obj("b1", S_Running)}
    /\ api_waited = FALSE
    /\ api_ret = "none"
    /\ api_exc = "none"
    /\ ExtIdle

NextLogsCall ==
    \/ LogsGetBuild
    \/ LogsWaitScheduled
    \/ LogsDispatch
    \/ LogsRequest
    \/ LogsCheck
    \/ LogsReadLine
    \/ LogsNext
    \/ LogsAbandon
    \/ LogsEnd

SpecLogsCall == InitLogsCall /\ [][NextLogsCall]_vars

\* =================================================================== claims
\* ------------------------------------------------- watch_resource (Spec)
WellFormedLine(l) == l.json = "dict" /\ l.hasType /\ l.hasObject
StringTyped(l) == WellFormedLine(l) /\ l.typeIsStr
PairsYielded == [i \in DOMAIN yielded |-> <<yielded[i].kind, yielded[i].object>>]
PairsExpected ==
    LET wf == SelectSeq(lines, LAMBDA x : WellFormedLine(x.line))
    IN  [i \in DOMAIN wf |-> <<Lower(wf[i].line.type), wf[i].line.object>>]

\* C1: whatever lines a watch connection delivers, the pairs handed to the
\* consumer are exactly the (type.lower(), object) pairs of the lines that
\* hold both keys, in the order received, and no line makes the generator
\* raise.
C1_YieldsExactlyWellFormed ==
    /\ PairsYielded = PairsExpected
    /\ wexc \notin {"TypeError", "AttributeError"}

\* C2 as stated: every pair handed to the consumer has one of the four kinds.
C2_KindsAreRecognised ==
    \A i \in DOMAIN yielded : yielded[i].kind \in RecognisedKinds

\* C2 as amended: watch_resource does not filter on the kind.  Every pair
\* handed to the consumer carries the lower-cased type of its line, and every
\* line holding an object and a string type is handed on, whatever the type.
C2_KindIsLoweredType ==
    /\ \A i \in DOMAIN yielded :
         /\ yielded[i].src \in DOMAIN lines
         /\ StringTyped(lines[yielded[i].src].line)
         /\ yielded[i].kind = Lower(lines[yielded[i].src].line.type)
    /\ \A j \in DOMAIN lines :
         StringTyped(lines[j].line) => \E i \in DOMAIN yielded : yielded[i].src = j

C2_UnrecognisedKindYielded ==
    \E i \in DOMAIN yielded :
        /\ yielded[i].kind = Lower(S_BOOKMARK)
        /\ yielded[i].kind \notin RecognisedKinds

AttemptFailed(n) ==
    \/ attempts[n].error # "none"
    \/ /\ check_response(attempts[n].status) # "ok"
       /\ (n < Cur \/ wpc # "check")

\* C6: every exhaustion of a connection's lines is followed by the 30 second
\* sleep and then by a new attempt on the URL of the first one; the generator
\* never ends there (it is asleep or reconnecting, not stopped, not raised),
\* and no counter stands in the way of the sleep or of the next attempt.
C6_ReconnectsAfterExhaustion ==
    /\ wpc # "stopped"
    /\ \A k \in DOMAIN exhausted :
         LET c == exhausted[k].conn IN
         /\ c = k
         /\ IF c < Cur
            THEN /\ attempts[c + 1].at = exhausted[k].at + BackoffSeconds * TicksPerSecond
                 /\ attempts[c + 1].url = attempts[1].url
                 /\ attempts[c + 1].url = url
            ELSE wpc \in {"backoff", "connect"}
    /\ \A n \in DOMAIN attempts : n > 1 => n - 1 \in DOMAIN exhausted
    /\ wpc = "backoff" => ENABLED WatchSleep
    /\ (wpc = "connect" /\ Cur < MaxConns) => ENABLED WatchConnect

C6_LaterConnectionYields ==
    \E i, j \in DOMAIN yielded :
        /\ lines[yielded[i].src].conn = 1
        /\ lines[yielded[j].src].conn = 2
        /\ i < j

SuccessStatus(n) ==
    attempts[n].error = "none" /\ attempts[n].status \in {HTTP_OK, HTTP_CREATED}

\* ------------------------------------- HttpResponse.json, check_response
\* response.json(check=...) on an HttpResponse
ResponseJson ==
    /\ rpc = "ready"
    /\ resp.kind = "HttpResponse"
    /\ \E check \in BOOLEAN :
         /\ rcall' = [fn |-> "json", check |-> check]
         /\ rout' = HttpResponse_json(resp, check)
    /\ rpc' = "done"
    /\ UNCHANGED <<watchVars, waitVars, finishVars, logVars, httpVars, apiVars,
                   twoVars, retryVars, authVars, lateVars, bcVars, resp>>

\* check_response(response) on either kind of response
CheckResponse ==
    /\ rpc = "ready"
    /\ rcall' = [fn |-> "check_response", check |-> FALSE]
    /\ rout' = check_response_raise(resp)
    /\ rpc' = "done"
    /\ UNCHANGED <<watchVars, waitVars, finishVars, logVars, httpVars, apiVars,
                   twoVars, retryVars, authVars, lateVars, bcVars, resp>>

InitResponse ==
    /\ WatchInit("none", watch_url("default", "builds", "None", ""))
    /\ WaitIdle
    /\ FinishIdle
    /\ LogsIdle
    /\ HttpIdle
    /\ ApiIdle
    /\ rpc = "ready"
    /\ resp \in [kind : {"HttpResponse", "HttpStream"},
                 status : ResponseStatuses, body : Bodies]
    /\ rcall = NoCall
    /\ rout = NoOutcome
    /\ TwoIdle
    /\ RetryIdle
    /\ AuthIdle
    /\ BcIdle
    /\ LateIdle

NextResponse ==
    \/ ResponseJson
    \/ CheckResponse

SpecResponse == InitResponse /\ [][NextResponse]_vars

\* ------------------------------------------- two operations on one client
\* Two generators, watch_resource or stream_logs, made from the same
\* Openshift object and driven by two threads.  Each step below is one
\* operation's code up to its next blocking call or yield.
MaxTwoConns == 2
MaxTwoLines == 1
MaxTwoSeconds == 90

Ops == {1, 2}
OpKinds == {"watch", "logs"}
TwoDelays == {BackoffSeconds * TicksPerSecond, min_idle_timeout * TicksPerSecond}

\* the frame of a generator at its first next()
NewOp(kind, t) ==
    [kind |-> kind, pc |-> "connect", conns |-> 0, open |-> FALSE,
     last_activity |-> t, started |-> t, hasSince |-> FALSE, since |-> 0,
     got |-> <<>>, ends |-> <<>>, wake |-> 0, exc |-> "none"]

\* the timestamp kept as an attribute of the client, one for all operations
set_last_activity_on_client(o, i, t) ==
    [j \in DOMAIN o |-> [o[j] EXCEPT !.last_activity = t]]

\* stream_logs: last_activity = time.time(), a local of the generator
set_last_activity(o, i, t) == [o EXCEPT ![i].last_activity = t]

\* _request_args: if with_auth and self.use_auth: if self.token is None:
\* self.get_oauth_token()
needs_token(c) == c.use_auth /\ c.token = "None"

\* self._get(url, stream=..., headers={'Connection': 'close'}) and
\* check_response(response), in operation i
TwoConnect(i) ==
    /\ ops[i].pc = "connect"
    /\ ops[i].conns < MaxTwoConns
    /\ \/ \* the token request fails, or answers without a token
          /\ needs_token(client)
          /\ ops' = [ops EXCEPT ![i].pc = "raised",
                                ![i].exc = "OsbsAuthException"]
          /\ UNCHANGED client
       \/ \E tok \in (IF needs_token(client) THEN {"fetched"} ELSE {client.token}) :
            /\ client' = [client EXCEPT !.token = tok]
            /\ \/ \* the request raises, or check_response does
                  ops' = [ops EXCEPT ![i].pc = "raised",
                                     ![i].exc = "OsbsResponseException",
                                     ![i].conns = @ + 1]
               \/ ops' = [ops EXCEPT ![i].pc = "read", ![i].conns = @ + 1,
                                     ![i].open = TRUE]
    /\ UNCHANGED <<watchVars, waitVars, finishVars, logVars, httpVars, apiVars,
                   respVars, retryVars, authVars, lateVars, bcVars, clock>>

\* a line arrives and is yielded; stream_logs notes the time first
TwoLine(i) ==
    /\ ops[i].pc = "read"
    /\ Len(ops[i].got) < MaxTwoLines
    /\ LET o1 == [ops EXCEPT ![i].got = Append(@, [at |-> clock,
                                                   conn |-> ops[i].conns])]
       IN ops' = IF ops[i].kind = "logs" THEN set_last_activity(o1, i, clock)
                 ELSE o1
    /\ UNCHANGED <<watchVars, waitVars, finishVars, logVars, httpVars, apiVars,
                   respVars, retryVars, authVars, lateVars, bcVars, client, clock>>

\* the lines of the connection end.  watch_resource leaves its with block and
\* sleeps; stream_logs returns or asks again, by its idle time
TwoEnd(i) ==
    /\ ops[i].pc = "read"
    /\ IF ops[i].kind = "watch"
       THEN ops' = [ops EXCEPT ![i].pc = "sleep", ![i].open = FALSE,
                               ![i].wake = clock + BackoffSeconds * TicksPerSecond,
                               ![i].ends = Append(@, [at |-> clock,
                                                     n_got |-> Len(ops[i].got),
                                                     again |-> TRUE,
                                                     since |-> 0])]
       ELSE LET idle == clock - ops[i].last_activity IN
            IF gives_up(idle)
            THEN ops' = [ops EXCEPT ![i].pc = "done", ![i].open = FALSE,
                                    ![i].ends = Append(@, [at |-> clock,
                                                          n_got |-> Len(ops[i].got),
                                                          again |-> FALSE,
                                                          since |-> 0])]
            ELSE ops' = [ops EXCEPT ![i].pc = "connect",
                                    ![i].hasSince = TRUE,
                                    ![i].since = since_seconds(idle),
                                    ![i].ends = Append(@, [at |-> clock,
                                                          n_got |-> Len(ops[i].got),
                                                          again |-> TRUE,
                                                          since |-> since_seconds(idle)])]
    /\ UNCHANGED <<watchVars, waitVars, finishVars, logVars, httpVars, apiVars,
                   respVars, retryVars, authVars, lateVars, bcVars, client, clock>>

\* time.sleep(30) of watch_resource returns
TwoWake(i) ==
    /\ ops[i].pc = "sleep"
    /\ clock >= ops[i].wake
    /\ ops' = [ops EXCEPT ![i].pc = "connect"]
    /\ UNCHANGED <<watchVars, waitVars, finishVars, logVars, httpVars, apiVars,
                   respVars, retryVars, authVars, lateVars, bcVars, client, clock>>

\* time passes
TwoTick ==
    /\ \E d \in TwoDelays :
         /\ clock + d <= MaxTwoSeconds * TicksPerSecond
         /\ clock' = clock + d
    /\ UNCHANGED <<watchVars, waitVars, finishVars, logVars, httpVars, apiVars,
                   respVars, retryVars, authVars, lateVars, bcVars, client, ops>>

InitTwo ==
    /\ WatchInit("none", watch_url("default", "builds", "None", ""))
    /\ WaitIdle
    /\ FinishIdle
    /\ LogsIdle
    /\ HttpIdle
    /\ ApiIdle
    /\ RespIdle
    /\ RetryIdle
    /\ client \in [use_auth : BOOLEAN, token : {"None", "given"}]
    /\ \E k \in [Ops -> OpKinds] : ops = [i \in Ops |-> NewOp(k[i], 0)]
    /\ clock = 0
    /\ AuthIdle
    /\ BcIdle
    /\ LateIdle

NextTwo ==
    \/ \E i \in Ops : TwoConnect(i)
    \/ \E i \in Ops : TwoLine(i)
    \/ \E i \in Ops : TwoEnd(i)
    \/ \E i \in Ops : TwoWake(i)
    \/ TwoTick

SpecTwo == InitTwo /\ [][NextTwo]_vars

\* ------------------------------------------------- the transport's retries
\* osbs.constants: the ceiling of retries and the statuses retried on
\* (server overload and unavailability).
HTTP_MAX_RETRIES == 3
HTTP_RETRIES_STATUS_FORCELIST == {503, 504}

\* what one attempt comes to: the connection fails, or a response arrives
AttemptStatuses == {HTTP_OK, 404, 503, 504}
ConnectError == [kind |-> "connect_error", status |-> 0]
Answer(status) == [kind |-> "response", status |-> status]
AttemptOutcomes == {ConnectError} \cup {Answer(st) : st \in AttemptStatuses}

\* Every status is retried on.
is_forced_retry_any(status_code) == TRUE

\* OSBSRetry.is_forced_retry: status_code in HTTP_RETRIES_STATUS_FORCELIST
is_forced_retry(status_code) == status_code \in HTTP_RETRIES_STATUS_FORCELIST

\* HttpStream.__init__: retry = OSBSRetry(total=HTTP_MAX_RETRIES, ...) is
\* mounted unless retries_disabled; the adapters of a fresh requests.Session
\* retry nothing
retry_total(cfg) == IF cfg.retries_disabled THEN 0 ELSE HTTP_MAX_RETRIES

\* whether the adapter asks its Retry object to count the outcome: a failed
\* connection always, a response when is_forced_retry says so (the default
\* adapters have no status list)
counts_as_retry(cfg, o) ==
    \/ o = ConnectError
    \/ o.kind = "response" /\ ~cfg.retries_disabled /\ is_forced_retry(o.status)

\* self.session.request(method, url, **args): one attempt and what the Retry
\* object makes of it.  increment takes one from total and raises when it
\* falls below zero; the exception is requests' ConnectionError or RetryError
TransportAttempt ==
    /\ tpc = "attempt"
    /\ \E o \in AttemptOutcomes :
         /\ ttries' = Append(ttries, o)
         /\ IF counts_as_retry(tcfg, o)
            THEN /\ tleft' = tleft - 1
                 /\ IF tleft - 1 < 0
                    THEN /\ tpc' = "raised"
                         /\ tres' = IF o = ConnectError
                                    THEN [kind |-> "ConnectionError", status |-> 0]
                                    ELSE [kind |-> "RetryError", status |-> o.status]
                    ELSE UNCHANGED <<tpc, tres>>
            ELSE /\ tpc' = "returned"
                 /\ tres' = o
                 /\ UNCHANGED tleft
    /\ UNCHANGED <<watchVars, waitVars, finishVars, logVars, httpVars, apiVars,
                   respVars, twoVars, authVars, lateVars, bcVars, tcfg>>

InitRetry ==
    /\ WatchInit("none", watch_url("default", "builds", "None", ""))
    /\ WaitIdle
    /\ FinishIdle
    /\ LogsIdle
    /\ HttpIdle
    /\ ApiIdle
    /\ RespIdle
    /\ TwoIdle
    /\ tpc = "attempt"
    /\ tcfg \in [retries_disabled : BOOLEAN]
    /\ ttries = <<>>
    /\ tleft = retry_total(tcfg)
    /\ tres = NoResult
    /\ AuthIdle
    /\ BcIdle
    /\ LateIdle

NextRetry == TransportAttempt

SpecRetry == InitRetry /\ [][NextRetry]_vars

\* ------------------------------------------- _request_args and the token
MaxCalls == 2

\* Every request goes through.
cert_key_unpaired_never(c) == FALSE

\* _request_args: if self.client_cert or self.client_key: unless both are
\* set, raise OsbsAuthException
cert_key_unpaired(c) == c.client_cert # c.client_key

\* what stops self._get(url, with_auth=False, ...) of get_oauth_token before
\* session.request is reached: _request_args' certificate check, then
\* HttpStream.__init__'s Kerberos check (kerberos_auth is passed when the
\* credentials are Kerberos and no user name and password are set)
token_request_error(c) ==
    IF cert_key_unpaired(c) THEN "OsbsAuthException"
    ELSE init_error([method |-> M_get, stream |-> FALSE,
                     kerberos_auth |-> (c.credentials = "kerberos")],
                    [kerberos |-> c.kerberos, requests26 |-> FALSE,
                     pep479 |-> FALSE])

\* _request_args: the Authorization header of a request, "none" when there is
\* none: "Bearer %s" % self.token under `with_auth and self.use_auth`
bearer_header(c, with_auth) ==
    IF with_auth /\ c.use_auth THEN c.token ELSE "none"

TokenRequest(c) == [to |-> "token", bearer |-> bearer_header(c, FALSE)]
ApiRequest(c) == [to |-> "api", bearer |-> bearer_header(c, TRUE)]

\* What the OAuth endpoint may answer the token request with: no Location
\* header, a Location whose fragment has no access_token (an error
\* redirect), a Location with one.
TokenAnswers == {"no_location", "no_access_token", "access_token"}

\* get_oauth_token on the answer r of its request: what becomes of
\* self.token, and the exception that leaves it
oauth_token(answer) ==
    CASE answer = "no_location" -> [token |-> "None", exc |-> "none"]  \* return ""
      [] answer = "no_access_token" ->
           \* parsed_fragment['access_token']
           [token |-> "None", exc |-> "KeyError"]
      [] OTHER -> [token |-> "fetched", exc |-> "none"]

\* self._get(url, ...) with with_auth=True: _request_args (get_oauth_token
\* when the token is None), then self._con.get
ClientGet ==
    /\ acalls < MaxCalls
    /\ acalls' = acalls + 1
    /\ IF acl.use_auth /\ acl.token = "None"
       THEN IF token_request_error(acl) # "none"
            THEN /\ aout' = IF token_request_error(acl) = "OsbsAuthException"
                            THEN "OsbsAuthException"
                            ELSE "OsbsException"
                 /\ UNCHANGED <<acl, asent>>
            ELSE \/ \* the token request fails
                    /\ \E e \in ConnErrors : aout' = e
                    /\ asent' = Append(asent, TokenRequest(acl))
                    /\ UNCHANGED acl
                 \/ \E answer \in TokenAnswers :
                      LET got == oauth_token(answer)
                          c == [acl EXCEPT !.token = got.token]
                      IN  /\ acl' = c
                          /\ IF got.exc # "none"
                             THEN /\ aout' = got.exc
                                  /\ asent' = Append(asent, TokenRequest(acl))
                             ELSE IF c.token = "None"
                             THEN \* `if self.token` fails
                                  /\ aout' = "OsbsAuthException"
                                  /\ asent' = Append(asent, TokenRequest(acl))
                             ELSE \* the certificate check passes as it did
                                  \* for the token request; the request is
                                  \* sent
                                  /\ asent' = asent \o <<TokenRequest(acl),
                                                          ApiRequest(c)>>
                                  /\ aout' \in ConnErrors \cup {"response"}
       ELSE IF acl.use_auth /\ acl.token = "empty"
            THEN \* '' is not None and not true: nothing is fetched
                 /\ aout' = "OsbsAuthException"
                 /\ UNCHANGED <<acl, asent>>
       ELSE IF cert_key_unpaired(acl)
            THEN /\ aout' = "OsbsAuthException"
                 /\ UNCHANGED <<acl, asent>>
            ELSE /\ asent' = Append(asent, ApiRequest(acl))
                 /\ aout' \in ConnErrors \cup {"response"}
                 /\ UNCHANGED acl
    /\ UNCHANGED <<watchVars, waitVars, finishVars, logVars, httpVars, apiVars,
                   respVars, twoVars, retryVars, bcVars, lateVars>>

\* The client as its constructor leaves it; kerberos_keytab is not set.
InitAuth ==
    /\ WatchInit("none", watch_url("default", "builds", "None", ""))
    /\ WaitIdle
    /\ FinishIdle
    /\ LogsIdle
    /\ HttpIdle
    /\ ApiIdle
    /\ RespIdle
    /\ TwoIdle
    /\ RetryIdle
    /\ acl \in [use_auth : BOOLEAN, token : {"None", "given", "empty"},
                credentials : {"none", "basic", "kerberos"},
                client_cert : BOOLEAN, client_key : BOOLEAN,
                kerberos : BOOLEAN]
    /\ asent = <<>>
    /\ acalls = 0
    /\ aout = "none"
    /\ BcIdle
    /\ LateIdle

NextAuth == ClientGet

SpecAuth == InitAuth /\ [][NextAuth]_vars

\* ------------------------------------- wait_for_new_build_config_instance
\* osbs.constants: the kinds as watch_resource yields them, in lower case.
WATCH_MODIFIED == Lower(S_MODIFIED)
WATCH_DELETED == Lower(S_DELETED)

\* httplib.NOT_FOUND
NOT_FOUND == 404

\* osbs.utils.graceful_chain_get(obj, 'status', 'lastVersion'): the value at
\* the end of the chain of keys, None when a key is missing
graceful_chain_get(obj) ==
    IF obj.hasVersion
    THEN [isNone |-> FALSE, isInt |-> obj.isInt, value |-> obj.lastVersion]
    ELSE [isNone |-> TRUE, isInt |-> FALSE, value |-> 0]

\* The body of the loop without its test of the kind for a new version.
bc_event_any_kind(changetype, obj, prev_version) ==
    LET version == graceful_chain_get(obj) IN
    IF version.isInt /\ version.value > prev_version THEN "return"
    ELSE IF changetype = WATCH_DELETED THEN "break"
    ELSE "continue"

\* The loop leaving at an error event as it does at a deleted one.
bc_event_error_breaks(changetype, obj, prev_version) ==
    LET version == graceful_chain_get(obj) IN
    IF changetype = WATCH_MODIFIED
    THEN IF ~version.isInt THEN "continue"
         ELSE IF version.value > prev_version THEN "return"
         ELSE "continue"
    ELSE IF changetype \in {WATCH_DELETED, Lower(S_ERROR)} THEN "break"
    ELSE "continue"

\* The body of wait_for_new_build_config_instance's for loop on one
\* (changetype, obj) pair: "continue", "return" or "break".
bc_event(changetype, obj, prev_version) ==
    LET version == graceful_chain_get(obj) IN
    IF changetype = WATCH_MODIFIED
    THEN IF ~version.isInt THEN "continue"                \* isinstance
         ELSE IF version.value > prev_version THEN "return"
         ELSE "continue"
    ELSE IF changetype = WATCH_DELETED THEN "break"
    ELSE "continue"

\* the raise after the loop
bc_after_loop == [type |-> "OsbsResponseException", status_code |-> NOT_FOUND]

BcEvent ==
    /\ consumer = "bc_wait"
    /\ bc_pc = "watching"
    /\ wpc = "yielded"
    /\ LET pair == yielded[Len(yielded)]
           d == bc_event(pair.kind, pair.object, bc_args.prev_version)
       IN  /\ bc_seen' = bc_seen + 1
           /\ CASE d = "continue" ->
                     /\ wpc' = "read"
                     /\ UNCHANGED <<bc_pc, bc_ret, bc_exc>>
                [] d = "return" ->
                     \* "%s-%s" % (build_config_id, version)
                     /\ bc_pc' = "returned"
                     /\ bc_ret' = [id |-> bc_args.build_config_id,
                                   version |-> pair.object.lastVersion]
                     /\ UNCHANGED <<wpc, bc_exc>>
                [] OTHER ->
                     /\ bc_pc' = "raised"
                     /\ bc_exc' = bc_after_loop
                     /\ UNCHANGED <<wpc, bc_ret>>
    /\ UNCHANGED <<consumer, url, attempts, wopen, lines, yielded, exhausted,
                   wexc, now, waitVars, finishVars, logVars, httpVars, apiVars,
                   respVars, twoVars, retryVars, authVars, lateVars, bc_args>>

\* an exception of the generator passes through the loop
BcLoopEnds ==
    /\ consumer = "bc_wait"
    /\ bc_pc = "watching"
    /\ wpc = "raised"
    /\ bc_pc' = "raised"
    /\ bc_exc' = [type |-> wexc, status_code |-> 0]
    /\ UNCHANGED <<watchVars, waitVars, finishVars, logVars, httpVars, apiVars,
                   respVars, twoVars, retryVars, authVars, lateVars, bc_args, bc_seen,
                   bc_ret>>

\* the loop was left with the generator suspended at its yield: the generator
\* is unreferenced and finalised, which closes it
BcGeneratorDropped ==
    /\ consumer = "bc_wait"
    /\ bc_pc \in {"returned", "raised"}
    /\ wpc = "yielded"
    /\ wpc' = "closed"
    /\ wopen' = close(wopen, Cur)
    /\ UNCHANGED <<consumer, url, attempts, lines, yielded, exhausted, wexc, now,
                   waitVars, finishVars, logVars, httpVars, apiVars, extVars>>

BcPrevVersions == {0, 1}

InitBuildConfig ==
    /\ WatchInit("bc_wait", watch_url("default", "buildconfigs", "bc1", ""))
    /\ WaitIdle
    /\ FinishIdle
    /\ LogsIdle
    /\ HttpIdle
    /\ ApiIdle
    /\ RespIdle
    /\ TwoIdle
    /\ RetryIdle
    /\ AuthIdle
    /\ LateIdle
    /\ bc_pc = "watching"
    /\ \E pv \in BcPrevVersions :
         bc_args = [build_config_id |-> "bc1", prev_version |-> pv]
    /\ bc_seen = 0
    /\ bc_ret = NoInstance
    /\ bc_exc = NoError

NextBuildConfig ==
    \/ WatchConnect
    \/ WatchCheck
    \/ WatchReadLine
    \/ WatchEndOfLines
    \/ WatchSleep
    \/ BcEvent
    \/ BcLoopEnds
    \/ BcGeneratorDropped

SpecBuildConfig == InitBuildConfig /\ [][NextBuildConfig]_vars

\* ------------------------------------------------------------ import_image
\* osbs.constants: the kind of an error event, in lower case.
WATCH_ERROR == Lower(S_ERROR)

\* The ImageStreams the first request may read.
ImStreams ==
    {[hasRepo |-> r, hasTags |-> TRUE, tags |-> tg] :
        r \in BOOLEAN, tg \in TagLists}
    \cup {[hasRepo |-> TRUE, hasTags |-> FALSE, tags |-> <<>>]}

\* dict.get(key, default) on status.tags: [] when the key is missing
tags_of(o) == IF o.hasTags THEN o.tags ELSE <<>>

ImContinue == [act |-> "continue", value |-> FALSE, exc |-> "none"]
ImBreak == [act |-> "break", value |-> FALSE, exc |-> "none"]
ImReturn(v) == [act |-> "return", value |-> v, exc |-> "none"]
ImRaise(e) == [act |-> "raise", value |-> FALSE, exc |-> e]

\* The body of the loop with no test for an error event.
im_event_ignores_error(changetype, obj, oldtags) ==
    IF changetype = WATCH_DELETED THEN ImBreak
    ELSE IF changetype = WATCH_MODIFIED
    THEN IF ~obj.isDict THEN ImRaise("AttributeError")
         ELSE IF obj.hasCheck /\ obj.check # <<>>
         THEN ImReturn(tags_of(obj) # oldtags)
         ELSE ImContinue
    ELSE ImContinue

\* The body of import_image's for loop on one (changetype, obj) pair.
im_event(changetype, obj, oldtags) ==
    IF changetype = WATCH_DELETED THEN ImBreak
    ELSE IF changetype = WATCH_ERROR THEN ImBreak
    ELSE IF changetype = WATCH_MODIFIED
    THEN IF ~obj.isDict THEN ImRaise("AttributeError")   \* obj.get on a non-dict
         ELSE IF obj.hasCheck /\ obj.check # <<>>         \* annotations.get(..)
         THEN ImReturn(tags_of(obj) # oldtags)
         ELSE ImContinue
    ELSE ImContinue

\* import_image, after its for loop: return False
im_after_loop == "False"

\* bool as im_ret records it
im_bool(v) == IF v THEN "True" ELSE "False"

\* imagestream_json = self._get(url).json(), and the test of
\* spec.dockerImageRepository
ImGet ==
    /\ im_pc = "get"
    /\ \/ \E e \in ConnErrors :
            /\ im_pc' = "raised"
            /\ im_exc' = e
            /\ UNCHANGED im_stream
       \/ \E st \in Statuses :
            IF st \notin json_accepted
            THEN /\ im_pc' = "raised"
                 /\ im_exc' = "OsbsResponseException"
                 /\ UNCHANGED im_stream
            ELSE \E js \in ImStreams :
                   /\ im_stream' = js
                   /\ IF js.hasRepo
                      THEN /\ im_pc' = "put"
                           /\ UNCHANGED im_exc
                      ELSE /\ im_pc' = "raised"
                           /\ im_exc' = "OsbsException"
    /\ UNCHANGED <<watchVars, waitVars, finishVars, logVars, httpVars, apiVars,
                   respVars, twoVars, retryVars, authVars, bcVars, im_seen,
                   im_ret>>

\* self._put(url, ...), check_response(response), and the call of
\* watch_resource("imagestreams", name, resourceVersion=resource_version)
ImPut ==
    /\ im_pc = "put"
    /\ \/ \E e \in ConnErrors :
            /\ im_pc' = "raised"
            /\ im_exc' = e
            /\ UNCHANGED <<wpc, url>>
       \/ \E st \in Statuses :
            IF check_response(st) = "ok"
            THEN /\ im_pc' = "watching"
                 /\ url' = watch_url("default", "imagestreams", "is1",
                                     "resourceVersion=7")
                 /\ wpc' = "connect"
                 /\ UNCHANGED im_exc
            ELSE /\ im_pc' = "raised"
                 /\ im_exc' = check_response(st)
                 /\ UNCHANGED <<wpc, url>>
    /\ UNCHANGED <<consumer, attempts, wopen, lines, yielded, exhausted, wexc,
                   now, waitVars, finishVars, logVars, httpVars, apiVars,
                   respVars, twoVars, retryVars, authVars, bcVars, im_stream,
                   im_seen, im_ret>>

\* the body of the for loop on the pair the generator has just yielded
ImEvent ==
    /\ consumer = "import"
    /\ im_pc = "watching"
    /\ wpc = "yielded"
    /\ LET pair == yielded[Len(yielded)]
           d == im_event(pair.kind, pair.object, tags_of(im_stream))
       IN  /\ im_seen' = im_seen + 1
           /\ CASE d.act = "continue" ->
                     /\ wpc' = "read"
                     /\ UNCHANGED <<im_pc, im_ret, im_exc>>
                [] d.act = "return" ->
                     /\ im_pc' = "returned"
                     /\ im_ret' = im_bool(d.value)
                     /\ UNCHANGED <<wpc, im_exc>>
                [] d.act = "break" ->
                     /\ im_pc' = "returned"
                     /\ im_ret' = im_after_loop
                     /\ UNCHANGED <<wpc, im_exc>>
                [] OTHER ->
                     /\ im_pc' = "raised"
                     /\ im_exc' = d.exc
                     /\ UNCHANGED <<wpc, im_ret>>
    /\ UNCHANGED <<consumer, url, attempts, wopen, lines, yielded, exhausted,
                   wexc, now, waitVars, finishVars, logVars, httpVars, apiVars,
                   respVars, twoVars, retryVars, authVars, bcVars, im_stream>>

\* an exception of the generator passes through the loop
ImLoopEnds ==
    /\ consumer = "import"
    /\ im_pc = "watching"
    /\ wpc = "raised"
    /\ im_pc' = "raised"
    /\ im_exc' = wexc
    /\ UNCHANGED <<watchVars, waitVars, finishVars, logVars, httpVars, apiVars,
                   respVars, twoVars, retryVars, authVars, bcVars, im_stream,
                   im_seen, im_ret>>

\* the loop was left with the generator suspended at its yield: the generator
\* is unreferenced and finalised, which closes it
ImGeneratorDropped ==
    /\ consumer = "import"
    /\ im_pc \in {"returned", "raised"}
    /\ wpc = "yielded"
    /\ wpc' = "closed"
    /\ wopen' = close(wopen, Cur)
    /\ UNCHANGED <<consumer, url, attempts, lines, yielded, exhausted, wexc, now,
                   waitVars, finishVars, logVars, httpVars, apiVars, extVars>>

InitImport ==
    /\ consumer = "import"
    /\ wpc = "unstarted"
    /\ url = watch_url("default", "imagestreams", "is1", "")
    /\ attempts = <<>>
    /\ wopen = {}
    /\ lines = <<>>
    /\ yielded = <<>>
    /\ exhausted = <<>>
    /\ wexc = "none"
    /\ now = 0
    /\ WaitIdle
    /\ FinishIdle
    /\ LogsIdle
    /\ HttpIdle
    /\ ApiIdle
    /\ RespIdle
    /\ TwoIdle
    /\ RetryIdle
    /\ AuthIdle
    /\ BcIdle
    /\ im_pc = "get"
    /\ im_stream = NoImageStream
    /\ im_seen = 0
    /\ im_ret = "none"
    /\ im_exc = "none"

NextImport ==
    \/ ImGet
    \/ ImPut
    \/ WatchConnect
    \/ WatchCheck
    \/ WatchReadLine
    \/ WatchEndOfLines
    \/ WatchSleep
    \/ ImEvent
    \/ ImLoopEnds
    \/ ImGeneratorDropped

SpecImport == InitImport /\ [][NextImport]_vars

\* ----------------------------- wait_for_build_to_finish over watch_resource
\* one turn of wait_for_build_to_finish's loop once the wait it called, here
\* wait itself on top of watch_resource, has returned or raised
FinishAfterWait ==
    /\ consumer = "build_wait"
    /\ fpc = "loop"
    /\ wait_pc \in {"returned", "raised"}
    /\ LET w == IF wait_pc = "returned" THEN WaitReturn(wait_result)
                ELSE WaitRaise(wait_exc)
       IN  /\ calls' = Append(calls, w)
           /\ CASE w.kind = "return" ->
                     /\ fpc' = "returned"
                     /\ fresult' = w.obj
                     /\ UNCHANGED <<retry, fexc, watchVars, waitVars>>
                [] w.kind = "raise" /\ retried(w.exc) ->
                     IF retry + 1 < RetryStop
                     THEN \* continue: wait is called again, on a new generator
                          /\ retry' = retry + 1
                          /\ wait_pc' = "watching"
                          /\ wait_seen' = 0
                          /\ wait_exc' = "none"
                          /\ wpc' = "connect"
                          /\ attempts' = <<>>
                          /\ wopen' = {}
                          /\ lines' = <<>>
                          /\ yielded' = <<>>
                          /\ exhausted' = <<>>
                          /\ wexc' = "none"
                          /\ UNCHANGED <<fpc, fresult, fexc, consumer, url, now,
                                         build_id, states, wait_result>>
                     ELSE /\ fpc' = "raised"
                          /\ fexc' = "OsbsException: Failed to wait for a build"
                          /\ UNCHANGED <<retry, fresult, watchVars, waitVars>>
                [] OTHER ->
                     /\ fpc' = "raised"
                     /\ fexc' = w.exc
                     /\ UNCHANGED <<retry, fresult, watchVars, waitVars>>
    /\ UNCHANGED <<logVars, httpVars, apiVars, extVars>>

InitFinishWatch ==
    /\ \E b \in BuildIds :
         /\ build_id = b
         /\ WatchInit("build_wait", watch_url("default", "builds", b, ""))
    /\ states = finished_states
    /\ wait_pc = "watching"
    /\ wait_seen = 0
    /\ wait_result = ObjNull
    /\ wait_exc = "none"
    /\ fpc = "loop"
    /\ retry = RetryFirst
    /\ calls = <<>>
    /\ fresult = ObjNull
    /\ fexc = "none"
    /\ LogsIdle
    /\ HttpIdle
    /\ ApiIdle
    /\ ExtIdle

NextFinishWatch ==
    \/ WatchConnect
    \/ WatchCheck
    \/ WatchReadLine
    \/ WatchEndOfLines
    \/ WatchSleep
    \/ WaitEvent
    \/ WaitLoopEnds
    \/ WaitGeneratorDropped
    \/ FinishAfterWait

SpecFinishWatch == InitFinishWatch /\ [][NextFinishWatch]_vars

\* ------------------------------------- watch_resource against a replaying server
\* The object of an event of the API server: it carries the resourceVersion
\* the change was stored under.
RvObj(v) == [isDict |-> TRUE, resourceVersion |-> v]

\* How many changes the server has to send after the version a watch starts
\* from.
MaxChanges == 2

\* The API server on a watch with resourceVersion=v in its URL, after it has
\* sent k lines on this connection: the change stored under v + k + 1.
served_line(u, k) == Event(S_MODIFIED, RvObj(u.query.resourceVersion + k + 1))

sent_on(c) == Cardinality({j \in DOMAIN lines : lines[j].conn = c})

\* iter_lines delivers the server's next change and the loop body runs on it
ReplayReadLine ==
    /\ wpc = "read"
    /\ Len(lines) < MaxLines
    /\ sent_on(Cur) < MaxChanges
    /\ LET l == served_line(attempts[Cur].url, sent_on(Cur))
           r == watch_line(l)
       IN  /\ lines' = Append(lines, [conn |-> Cur, line |-> l])
           /\ r.act = "yield"
           /\ yielded' = Append(yielded,
                  [src |-> Len(lines) + 1, kind |-> r.kind, object |-> r.object])
           /\ wpc' = "yielded"
    /\ UNCHANGED <<consumer, url, attempts, wopen, exhausted, wexc, now, waitVars,
                   finishVars, logVars, httpVars, apiVars, extVars>>

\* The versions import_image may read in metadata.resourceVersion.
StartVersions == {0, 7}

InitReplay ==
    /\ \E v \in StartVersions :
         WatchInit("plain", watch_url("default", "imagestreams", "is1",
                                      [resourceVersion |-> v]))
    /\ WaitIdle
    /\ FinishIdle
    /\ LogsIdle
    /\ HttpIdle
    /\ ApiIdle
    /\ ExtIdle

NextReplay ==
    \/ WatchConnect
    \/ WatchCheck
    \/ ReplayReadLine
    \/ WatchEndOfLines
    \/ WatchSleep
    \/ ConsumerNext
    \/ ConsumerAbandon

SpecReplay == InitReplay /\ [][NextReplay]_vars

\* ------------------------------------ the three consumers of watch events
\* wait, wait_for_new_build_config_instance and import_image, each on a watch
\* that may deliver an error event.
InitKindWait ==
    /\ \E st \in {finished_states, scheduled_states} :
         /\ build_id = "b1"
         /\ states = st
         /\ WatchInit("kind_wait", watch_url("default", "builds", "b1", ""))
    /\ wait_pc = "watching"
    /\ wait_seen = 0
    /\ wait_result = ObjNull
    /\ wait_exc = "none"
    /\ FinishIdle
    /\ LogsIdle
    /\ HttpIdle
    /\ ApiIdle
    /\ ExtIdle

\* import_image once its PUT has passed check_response
InitImportWatch ==
    /\ WatchInit("import", watch_url("default", "imagestreams", "is1",
                                     "resourceVersion=7"))
    /\ WaitIdle
    /\ FinishIdle
    /\ LogsIdle
    /\ HttpIdle
    /\ ApiIdle
    /\ RespIdle
    /\ TwoIdle
    /\ RetryIdle
    /\ AuthIdle
    /\ BcIdle
    /\ im_pc = "watching"
    /\ im_stream \in {js \in ImStreams : js.hasRepo}
    /\ im_seen = 0
    /\ im_ret = "none"
    /\ im_exc = "none"

InitKinds ==
    \/ InitKindWait
    \/ InitBuildConfig
    \/ InitImportWatch

NextKinds ==
    \/ WatchConnect
    \/ WatchCheck
    \/ WatchReadLine
    \/ WatchEndOfLines
    \/ WatchSleep
    \/ WaitEvent
    \/ WaitLoopEnds
    \/ WaitGeneratorDropped
    \/ BcEvent
    \/ BcLoopEnds
    \/ BcGeneratorDropped
    \/ ImEvent
    \/ ImLoopEnds
    \/ ImGeneratorDropped

SpecKinds == InitKinds /\ [][NextKinds]_vars

\* C11: on every connection attempt the status is checked before a line is
\* read.  Every line read, and so every pair handed on, comes from a response
\* with a success status; a response with another status has delivered no
\* line, is closed, and its OsbsResponseException ends the attempt.
C11_StatusCheckedBeforeLines ==
    /\ \A j \in DOMAIN lines : SuccessStatus(lines[j].conn)
    /\ \A i \in DOMAIN yielded : SuccessStatus(lines[yielded[i].src].conn)
    /\ wpc \in {"read", "yielded"} => SuccessStatus(Cur)
    /\ \A n \in DOMAIN attempts :
         (/\ attempts[n].error = "none"
          /\ attempts[n].status \notin {HTTP_OK, HTTP_CREATED}
          /\ ~(n = Cur /\ wpc = "check"))
         => /\ n = Cur
            /\ wpc = "raised"
            /\ wexc = "OsbsResponseException"
            /\ n \notin wopen
            /\ \A j \in DOMAIN lines : lines[j].conn # n

C11_BadStatusAborts ==
    /\ Cur = 2
    /\ attempts[2].error = "none"
    /\ attempts[2].status = 404
    /\ wpc = "raised"
    /\ \E j \in DOMAIN lines : lines[j].conn = 1
    /\ \A j \in DOMAIN lines : lines[j].conn # 2

\* C12: the watch's connection is closed on every way out of the with block:
\* when its lines are exhausted (so before the sleep and before the next
\* attempt), when an exception is raised while it is open, and when the
\* consumer abandons the generator.  Only the current attempt is ever open.
C12_ReleasedOnEveryExit ==
    /\ Cardinality(wopen) <= 1
    /\ wpc \in {"check", "read", "yielded"} => wopen = {Cur}
    /\ wpc \in {"connect", "backoff", "raised", "closed", "stopped"} => wopen = {}
    /\ \A k \in DOMAIN exhausted : exhausted[k].conn \notin wopen
    /\ \A n \in DOMAIN attempts : n < Cur => n \notin wopen

C12_AbandonedSecondConnection ==
    /\ wpc = "closed"
    /\ Cur = 2
    /\ exhausted # <<>>
    /\ wopen = {}

\* ------------------------------------------------------- wait (SpecWait)
Named(o) == o.isDict /\ o.hasName /\ o.hasPhase
ReturnedAt(i) == wait_pc = "returned" /\ i = wait_seen /\ wait_result = yielded[i].object

\* C3: wait returns only an object named build_id; a pair of another name,
\* whatever its phase, leaves wait in its loop, asking for the next pair.
C3_NeverReturnsOtherName ==
    /\ [](wait_pc = "returned" =>
            /\ Named(wait_result)
            /\ wait_result.name = build_id
            /\ \A i \in 1..wait_seen :
                 (Named(yielded[i].object) /\ yielded[i].object.name # build_id)
                     => i < wait_seen)
    /\ [][(/\ wait_seen' = wait_seen + 1
           /\ yielded[wait_seen'].object.isDict
           /\ yielded[wait_seen'].object.hasName
           /\ yielded[wait_seen'].object.name # build_id)
          => (wait_pc' = "watching" /\ wpc' = "read")]_vars

C3_OtherNameIgnored ==
    /\ wait_pc = "returned"
    /\ \E i \in 1..wait_seen :
         /\ Named(yielded[i].object)
         /\ yielded[i].object.name # build_id
         /\ Lower(yielded[i].object.phase) \in states

\* C4 as stated: a pair of the build whose phase equals a member of states up
\* to letter case, on either side, is accepted.
C4_CaseInsensitiveBothSides ==
    \A i \in 1..wait_seen :
        LET o == yielded[i].object IN
        (/\ Named(o)
         /\ o.name = build_id
         /\ \E st \in states : Lower(o.phase) = Lower(st))
        => ReturnedAt(i)

\* C4 as amended: only the pair's phase is lower-cased.  A pair of the build
\* is accepted exactly when phase.lower() is a member of states as given, so
\* every letter case of the phase matches a lower-case member and a member
\* with an upper-case letter matches nothing.
C4_PhaseLoweredOnly ==
    \A i \in 1..wait_seen :
        LET o == yielded[i].object IN
        (Named(o) /\ o.name = build_id)
        => (ReturnedAt(i) <=> Lower(o.phase) \in states)

C4_MixedCasePhaseAccepted ==
    /\ wait_pc = "returned"
    /\ wait_result.phase = S_Complete
    /\ S_complete \in states
    /\ wait_result.phase \notin states

Qualifies(o) == Named(o) /\ o.name = build_id /\ Lower(o.phase) \in states

\* C5: wait returns the object of the first line, in stream order, that
\* carries a pair of the build with an accepted phase; a pair of the build
\* with another phase leaves wait in its loop; once wait has returned no
\* line is read and no connection is opened.
C5_ReturnsAtFirstAccepted ==
    /\ [](wait_pc = "returned" =>
            /\ wait_seen = Len(yielded)
            /\ yielded[wait_seen].src = Len(lines)
            /\ wait_result = lines[Len(lines)].line.object
            /\ Qualifies(wait_result)
            /\ \A j \in 1..(Len(lines) - 1) :
                 ~(StringTyped(lines[j].line) /\ Qualifies(lines[j].line.object)))
    /\ [][(/\ wait_seen' = wait_seen + 1
           /\ Named(yielded[wait_seen'].object)
           /\ yielded[wait_seen'].object.name = build_id
           /\ Lower(yielded[wait_seen'].object.phase) \notin states)
          => (wait_pc' = "watching" /\ wpc' = "read")]_vars
    /\ [][wait_pc = "returned" =>
            (lines' = lines /\ attempts' = attempts /\ yielded' = yielded
             /\ wait_result' = wait_result /\ wait_pc' = "returned")]_vars

C5_ThirdObjectReturned ==
    /\ states = {S_complete}
    /\ wait_pc = "returned"
    /\ Len(lines) = 3
    /\ lines[1].line = Event(S_ADDED, Obj(build_id, S_New))
    /\ lines[2].line = Event(S_MODIFIED, Obj(build_id, S_Running))
    /\ lines[3].line = Event(S_MODIFIED, Obj(build_id, S_Complete))
    /\ wait_result = Obj(build_id, S_Complete)
    /\ Cur = 1

\* ------------------------------------ wait_for_build_to_finish (SpecFinish)
AllNotFound == \A i \in DOMAIN calls : calls[i].exc = "OsbsWatchBuildNotFound"

\* C7: as long as every call of wait raises OsbsWatchBuildNotFound,
\* wait_for_build_to_finish goes on calling it, up to 9 calls; after the
\* ninth it raises OsbsException 'Failed to wait for a build', and it never
\* raises OsbsWatchBuildNotFound.
C7_NineCallsThenFatal ==
    /\ fexc # "OsbsWatchBuildNotFound"
    /\ AllNotFound =>
         /\ Len(calls) <= 9
         /\ Len(calls) < 9 => (fpc = "loop" /\ fexc = "none")
         /\ Len(calls) = 9 =>
              (fpc = "raised" /\ fexc = "OsbsException: Failed to wait for a build")

C7_NinthNotFound ==
    /\ Len(calls) = 9
    /\ AllNotFound
    /\ fpc = "raised"

\* C8: wait is called again only after OsbsWatchBuildNotFound.  The object
\* wait returns at its k-th call (k <= 9) is returned, and any other error of
\* wait is raised as it is, each without a further call.
C8_RetriesOnlyNotFound ==
    /\ Len(calls) <= 9
    /\ \A i \in DOMAIN calls :
         /\ i < Len(calls) => calls[i].exc = "OsbsWatchBuildNotFound"
         /\ calls[i].kind = "return" =>
              (fpc = "returned" /\ fresult = calls[i].obj /\ fexc = "none")
         /\ (calls[i].kind = "raise" /\ calls[i].exc # "OsbsWatchBuildNotFound") =>
              (fpc = "raised" /\ fexc = calls[i].exc /\ i = Len(calls))
    /\ fpc = "returned" => (calls # <<>> /\ calls[Len(calls)].kind = "return")

C8_ReturnedAtThirdCall ==
    /\ fpc = "returned"
    /\ Len(calls) = 3
    /\ fresult = Obj(build_id, S_Failed)

\* ------------------------------------------------- stream_logs (SpecLogs)
\* The time of the last line handed to the consumer before the k-th end of a
\* connection, or of the start (0) when there was none.
LastYieldBefore(k) ==
    IF lends[k].nyields = 0 THEN 0 ELSE lyields[lends[k].nyields].at
IdleAtEnd(k) == lends[k].at - LastYieldBefore(k)

\* C9: when a log connection ends, the time since the last line handed out
\* (or since the start) decides: under 60 s the generator stops and sends
\* nothing more; otherwise the next request carries follow=1 and
\* sinceSeconds = the whole seconds of idle - 1.
C9_IdleDecides ==
    /\ \A k \in DOMAIN lends :
         /\ lends[k].conn = k
         /\ IF IdleAtEnd(k) < 60 * TicksPerSecond
            THEN /\ k = Len(lends)
                 /\ Len(lreqs) = k
                 /\ lpc = "done"
            ELSE /\ lpc # "done" \/ k < Len(lends)
                 /\ Len(lreqs) = k => lpc = "request"
                 /\ Len(lreqs) > k =>
                      /\ lreqs[k + 1].kwargs.follow = 1
                      /\ lreqs[k + 1].kwargs.hasSince
                      /\ lreqs[k + 1].kwargs.sinceSeconds * TicksPerSecond
                             <= IdleAtEnd(k) - TicksPerSecond
                      /\ (lreqs[k + 1].kwargs.sinceSeconds + 1) * TicksPerSecond
                             > IdleAtEnd(k) - TicksPerSecond
    /\ lpc = "done" => lends # <<>>

C9_Idle90Then30 ==
    /\ lpc = "done"
    /\ Len(lends) = 2
    /\ IdleAtEnd(1) = 90 * TicksPerSecond
    /\ lreqs[2].kwargs = LogKwargs(TRUE, 89)
    /\ IdleAtEnd(2) = 30 * TicksPerSecond

\* C13: a log connection whose lines have ended is closed: it is not open when
\* stream_logs sends its next request, nor when stream_logs returns or
\* raises, so at most the connection in use is open.
C13_ClosedWhenLinesEnd ==
    /\ \A k \in DOMAIN lends : lends[k].conn \notin lopen
    /\ lpc \in {"request", "done"} => lopen = {}

\* ------------------------------------------- HttpSession.request (SpecHttp)
\* C19: a request whose method, lower-cased, is none of get, post, put,
\* delete makes no session.request call at all and raises OsbsException with
\* the RuntimeError of HttpStream.__init__ as its cause, never
\* OsbsNetworkException; a request with one of the four methods (and no
\* Kerberos failure) does reach session.request, once.
C19_BadMethodFailsFast ==
    hpc # "call" =>
        IF Lower(hcall.method) \notin {M_get, M_post, M_put, M_delete}
        THEN /\ hwire = <<>>
             /\ hpc = "raised"
             /\ hexc.type = "OsbsException"
             /\ hexc.cause = "RuntimeError: Unsupported method"
             /\ hs = NoStream
        ELSE (~hcall.kerberos_auth \/ henv.kerberos) => Len(hwire) = 1

C19_PatchRejected ==
    /\ hcall.method = M_patch
    /\ hpc = "raised"
    /\ hwire = <<>>

\* C20 as stated: a connection error, a timeout or exhausted retries of
\* session.request reach the caller as OsbsNetworkException with the original
\* exception as cause and, when the exception told one, the status code.
C20_NetworkErrorsWrapped ==
    \A i \in DOMAIN hwire :
        LET net == hwire[i].outcome IN
        (net.kind = "error" /\ net.type \in {"ConnectionError", "Timeout", "RetryError"})
        => /\ hpc = "raised"
           /\ hexc.type = "OsbsNetworkException"
           /\ hexc.cause = net.type
           /\ net.matches => hexc.status_code = StatusInt(net.status)

\* C14: a line iter_lines yields is yielded while the HttpStream is open;
\* none is yielded once close() has run.
C14_ClosedEmitsNothing ==
    \A i \in DOMAIN hemit : ~hemit[i].closed

\* ------------------------------------ wait over a sequence that can end
\* C15: when the sequence of pairs wait iterates ends and no pair of it was
\* of the build with an accepted phase, wait raises OsbsWatchBuildNotFound,
\* and it raises that for no other reason; whenever wait returns, it returns
\* an object named build_id whose lower-cased phase is in states.
C15_EndedSequenceRaisesNotFound ==
    /\ (wpc = "stopped" /\ wait_pc # "watching") =>
            /\ wait_pc = "raised"
            /\ wait_exc = "OsbsWatchBuildNotFound"
            /\ wait_seen = Len(yielded)
            /\ \A i \in DOMAIN yielded : ~Qualifies(yielded[i].object)
    /\ (wpc = "stopped" /\ wait_pc = "watching") => ENABLED WaitLoopEnds
    /\ wait_exc = "OsbsWatchBuildNotFound" => wpc = "stopped"
    /\ wait_pc = "returned" => Qualifies(wait_result)

C15_EndedAfterOtherPhase ==
    /\ wait_pc = "raised"
    /\ wait_exc = "OsbsWatchBuildNotFound"
    /\ Len(yielded) = 2
    /\ yielded[1].object = Obj(build_id, S_New)
    /\ yielded[2].object = Obj(build_id, S_Running)
    /\ states = {S_complete}

\* C16: a deleted pair of the build whose phase is not accepted ends wait
\* with OsbsWatchBuildNotFound.
C16_DeletionRaisesNotFound ==
    \A i \in 1..wait_seen :
        LET o == yielded[i].object IN
        (/\ yielded[i].kind = S_deleted_l
         /\ Named(o)
         /\ o.name = build_id
         /\ Lower(o.phase) \notin states)
        => (wait_pc = "raised" /\ wait_exc = "OsbsWatchBuildNotFound")

\* ----------------------------- the two waits for a build (SpecScheduled)
\* C17: wait_for_build_to_get_scheduled's wait returns at a pair of the build
\* exactly when its phase, lower-cased, is a finished or a running one; an
\* object at which wait_for_build_to_finish's wait returns would make the
\* other wait return as well; a pair in a pending phase ends neither.
C17_ScheduledIsFinishedOrRunning ==
    \A i \in 1..wait_seen :
        LET o == yielded[i].object IN
        (Named(o) /\ o.name = build_id) =>
            /\ states = scheduled_states =>
                 (ReturnedAt(i) <=>
                    Lower(o.phase) \in Range(BUILD_FINISHED_STATES)
                                        \cup Range(BUILD_RUNNING_STATES))
            /\ (states = finished_states /\ ReturnedAt(i)) =>
                 /\ Lower(o.phase) \in Range(BUILD_FINISHED_STATES)
                 /\ wait_event(o, build_id, scheduled_states) = "return"
            /\ Lower(o.phase) \in Range(BUILD_PENDING_STATES) => ~ReturnedAt(i)

C17_RunningAfterPending ==
    /\ states = scheduled_states
    /\ wait_pc = "returned"
    /\ wait_result = Obj(build_id, S_Running)
    /\ wait_seen = 3
    /\ yielded[1].object = Obj(build_id, S_New)
    /\ yielded[2].object = Obj(build_id, S_Pending)

\* ------------------------------------------------------ logs (SpecLogsCall)
\* C18: logs(build_id, follow=True) sends no log request before
\* wait_for_build_to_get_scheduled has returned an object of the build in a
\* finished or running phase; it then returns the stream_logs generator, whose
\* lines come out in the order received and which ends when a connection
\* closes with idle under 60 s.  With the build in a pending phase no log
\* request is sent, with or without follow.
C18_LogsFollowAfterScheduled ==
    /\ api_pc \in {"get_build", "wait", "dispatch"} => (lreqs = <<>> /\ lpc = "idle")
    /\ api_ret = "generator" <=> lpc # "idle"
    /\ api_args.follow =>
         /\ api_ret \in {"none", "generator"}
         /\ (lreqs # <<>> \/ api_ret = "generator") =>
              /\ api_waited
              /\ api_build.name = build_id
              /\ Lower(api_build.phase) \in
                     Range(BUILD_FINISHED_STATES) \cup Range(BUILD_RUNNING_STATES)
    /\ (api_build # ObjNull /\ is_pending(api_build)) => lreqs = <<>>
    /\ \A i, j \in DOMAIN lyields :
         i < j => (lyields[i].at <= lyields[j].at /\ lyields[i].conn <= lyields[j].conn)
    /\ lpc = "done" =>
         /\ lends # <<>>
         /\ Len(lreqs) = Len(lends)
         /\ IdleAtEnd(Len(lends)) < min_idle_timeout * TicksPerSecond

C18_FollowedRunningBuild ==
    /\ api_args.follow
    /\ ~api_args.wait_if_missing
    /\ api_waited
    /\ api_build = Obj(build_id, S_Running)
    /\ lpc = "done"
    /\ Len(lyields) = 2
    /\ Len(lreqs) = 2

\* C21: a stream-mode request returns an open HttpStream whose body has not
\* been read; any other request returns an HttpResponse with the status code
\* and headers the server sent and the complete content, and its HttpStream is
\* closed by the time it returns.
C21_StreamOpenElseBuffered ==
    [][(hpc = "call" /\ hpc' = "returned") =>
        LET net == hwire'[Len(hwire')].outcome IN
        IF hcall.stream
        THEN /\ hret'.kind = "HttpStream"
             /\ hret'.content = "unread"
             /\ hs'.exists /\ ~hs'.closed /\ hs'.hasReq
        ELSE /\ hret'.kind = "HttpResponse"
             /\ hret'.status = net.status
             /\ hret'.headers = net.headers
             /\ hret'.content = "complete"
             /\ hs'.exists /\ hs'.closed /\ ~hs'.hasReq]_vars

\* a buffered 404 answer came back as an HttpResponse
C21_BufferedNotFound ==
    /\ hpc = "returned"
    /\ ~hcall.stream
    /\ hret.kind = "HttpResponse"
    /\ hret.status = 404
    /\ hret.headers = "text/plain"
    /\ hs.closed


C23_RaisesWithStatusAndBody ==
    (rpc = "done" /\ rcall.fn = "check_response") =>
        IF resp.status \notin {HTTP_OK, HTTP_CREATED}
        THEN /\ rout.kind = "raise"
             /\ rout.type = "OsbsResponseException"
             /\ rout.status_code = resp.status
             /\ rout.value = resp.body
        ELSE rout.kind = "return"


\* the time of operation i's own last line before its k-th end of lines, or
\* of its start
OwnLastActivity(i, k) ==
    IF ops[i].ends[k].n_got = 0 THEN ops[i].started
    ELSE ops[i].got[ops[i].ends[k].n_got].at

\* what one operation does follows from its own history alone
OwnDecisions ==
    \A i \in DOMAIN ops :
      /\ ops[i].kind = "logs" =>
           /\ ops[i].last_activity =
                (IF ops[i].got = <<>> THEN ops[i].started
                 ELSE ops[i].got[Len(ops[i].got)].at)
           /\ \A k \in DOMAIN ops[i].ends :
                LET idle == ops[i].ends[k].at - OwnLastActivity(i, k) IN
                /\ ops[i].ends[k].again = ~gives_up(idle)
                /\ ops[i].ends[k].again =>
                     ops[i].ends[k].since = since_seconds(idle)
      /\ ops[i].kind = "watch" =>
           /\ \A k \in DOMAIN ops[i].ends : ops[i].ends[k].again
           /\ ops[i].pc = "connect" /\ ops[i].ends # <<>> =>
                clock >= ops[i].ends[Len(ops[i].ends)].at
                         + BackoffSeconds * TicksPerSecond
      /\ \A n \in DOMAIN ops[i].got : ops[i].got[n].conn <= ops[i].conns

\* a step of one operation leaves the other's local variables alone
OwnLocals ==
    \A i \in DOMAIN ops : \A j \in DOMAIN ops :
        (i # j /\ ops'[i] # ops[i]) => ops'[j] = ops[j]

C25_NamelessOrPhaselessSkipped ==
    [][(/\ IsWait
        /\ wait_pc = "watching"
        /\ wpc = "yielded"
        /\ wait_seen' = wait_seen + 1
        /\ LET obj == yielded[Len(yielded)].object
           IN ~obj.hasName \/ ~obj.hasPhase)
       => (wait_pc' = "watching" /\ wpc' = "read" /\ wait_exc' = "none")]_vars


\* C26: a read interruption inside iter_lines is swallowed: the lines read
\* before it have been yielded, the iteration ends as at a normal end of the
\* stream and no error reaches the consumer.
C26_ReadInterruptionSwallowed ==
    hs.interrupted => (hit = "finished" /\ hexc = NoException)


\* a response whose status is in the retryable set
Retryable(o) ==
    o.kind = "response" /\ o.status \in HTTP_RETRIES_STATUS_FORCELIST

\* an attempt that was followed by another one
Repeated(k) == k \in DOMAIN ttries /\ k < Len(ttries)

\* what holds of the retries whatever is retried on: at most HTTP_MAX_RETRIES
\* of them, none with retries_disabled, and a response whose status is not in
\* the retryable set is returned at once
RetryCeiling ==
    /\ Len(ttries) <= 1 + HTTP_MAX_RETRIES
    /\ tcfg.retries_disabled => Len(ttries) <= 1
    /\ \A k \in DOMAIN ttries :
         (ttries[k] # ConnectError
          /\ ttries[k].status \notin HTTP_RETRIES_STATUS_FORCELIST)
         => (k = Len(ttries) /\ tpc = "returned" /\ tres = ttries[k])

\* C27: a request is retried only when the response status is in the
\* retryable set, at most HTTP_MAX_RETRIES times; a response of another status
\* is returned after that attempt, and with retries_disabled no attempt is
\* repeated.
C27_RetriedOnlyOnStatus ==
    /\ RetryCeiling
    /\ \A k \in DOMAIN ttries :
         Repeated(k) => Retryable(ttries[k])

\* C27, as the code has it: a request is retried when the response status is
\* in the retryable set or when the connection failed, HTTP_MAX_RETRIES times
\* at most in all; then the next such outcome raises.
C27_RetriedOnStatusOrConnection ==
    /\ RetryCeiling
    /\ \A k \in DOMAIN ttries :
         Repeated(k) =>
           /\ ~tcfg.retries_disabled
           /\ \/ Retryable(ttries[k])
              \/ ttries[k] = ConnectError
    /\ tpc = "raised" =>
         /\ Len(ttries) = 1 + retry_total(tcfg)
         /\ \/ Retryable(ttries[Len(ttries)])
            \/ ttries[Len(ttries)] = ConnectError

\* a failed connection and a 503 were both retried, and the 404 that came
\* third was returned
C27_RetriedThenReturned ==
    /\ ~tcfg.retries_disabled
    /\ ttries = <<ConnectError, Answer(503), Answer(404)>>
    /\ tpc = "returned"
    /\ tres = Answer(404)


\* C28: configuration errors fail fast.  With only one of client certificate
\* and client key set, every request raises OsbsAuthException and no HTTP
\* request is ever sent; when the token is to be got with Kerberos and
\* requests_kerberos is missing, the request fails and no HTTP request is sent.
C28_ConfigErrorsSendNothing ==
    /\ (acl.client_cert # acl.client_key) =>
         /\ asent = <<>>
         /\ acalls > 0 => aout = "OsbsAuthException"
    /\ (/\ acl.client_cert = acl.client_key
        /\ acl.use_auth /\ acl.token = "None"
        /\ acl.credentials = "kerberos" /\ ~acl.kerberos) =>
         /\ asent = <<>>
         /\ acalls > 0 => aout = "OsbsException"

\* two requests on a client that has a certificate and no key, and no token
C28_TwoRequestsUnpairedCert ==
    /\ acalls = MaxCalls
    /\ acl.client_cert /\ ~acl.client_key
    /\ acl.use_auth /\ acl.token = "None"
    /\ asent = <<>>
    /\ aout = "OsbsAuthException"


\* C29: every connection attempt of watch_resource, the first and every
\* reconnection, is a streaming GET of watch/namespaces/{ns}/{type}/, with the
\* resource name as a further segment only when one was given, and carries
\* the header Connection: close.
C29_EveryAttemptStreamingGet ==
    \A n \in DOMAIN attempts :
        LET r == attempts[n].request
            p == r.url.path
        IN  /\ r.method = <<"g", "e", "t">>
            /\ r.stream
            /\ <<"Connection", "close">> \in r.headers
            /\ r.url = url
            /\ SubSeq(p, 1, 3) = <<"watch", "namespaces", "default">>
            /\ \E a \in WatchArgs :
                 /\ r.url.query = a[3]
                 /\ p[4] = a[1]
                 /\ IF a[2] = "None" THEN Len(p) = 4
                    ELSE Len(p) = 5 /\ p[5] = a[2]

\* a reconnection of a watch that was given no name
C29_ReconnectedWithoutName ==
    /\ Len(attempts) = 2
    /\ Len(url.path) = 4
    /\ attempts[2].error = "none"


\* a modified pair whose lastVersion is an integer above prev_version
NewInstance(pair) ==
    /\ pair.kind = <<"m", "o", "d", "i", "f", "i", "e", "d">>
    /\ pair.object.hasVersion /\ pair.object.isInt
    /\ pair.object.lastVersion > bc_args.prev_version

Deleted(pair) == pair.kind = <<"d", "e", "l", "e", "t", "e", "d">>

\* C30: wait_for_new_build_config_instance returns '<build_config_id>-<version>'
\* at the first modified event whose status.lastVersion is an integer greater
\* than prev_version; other modified events and events of other kinds do not
\* end it; a deleted event ends it with OsbsResponseException, status 404.
C30_ReturnsAtFirstNewVersion ==
    /\ [][(consumer = "bc_wait" /\ bc_seen' = bc_seen + 1) =>
            LET pair == yielded[Len(yielded)] IN
            IF NewInstance(pair)
            THEN /\ bc_pc' = "returned"
                 /\ bc_ret' = [id |-> "bc1", version |-> pair.object.lastVersion]
            ELSE IF Deleted(pair)
            THEN /\ bc_pc' = "raised"
                 /\ bc_exc' = [type |-> "OsbsResponseException",
                               status_code |-> 404]
            ELSE /\ bc_pc' = "watching"
                 /\ wpc' = "read"
                 /\ bc_ret' = NoInstance /\ bc_exc' = NoError]_vars
    /\ [](bc_pc = "returned" =>
            /\ bc_seen = Len(yielded)
            /\ NewInstance(yielded[Len(yielded)])
            /\ \A i \in 1..(Len(yielded) - 1) :
                 ~NewInstance(yielded[i]) /\ ~Deleted(yielded[i]))

\* version 2 came after an added pair of version 2 and a modified pair whose
\* lastVersion is no integer, and was returned
C30_ReturnedAfterOthers ==
    /\ bc_pc = "returned"
    /\ bc_ret = [id |-> "bc1", version |-> 2]
    /\ bc_args.prev_version = 1
    /\ Len(yielded) = 3
    /\ yielded[1].kind = <<"a", "d", "d", "e", "d">>
    /\ yielded[1].object.lastVersion = 2
    /\ ~yielded[2].object.isInt

\* --------------------------------------------------- import_image (SpecImport)
ImPair(i) == yielded[i]
ImEndsFalse(i) == ImPair(i).kind \in {WATCH_DELETED, WATCH_ERROR}
ImEndsChecked(i) ==
    /\ ImPair(i).kind = WATCH_MODIFIED
    /\ ImPair(i).object.isDict
    /\ ImPair(i).object.hasCheck
    /\ ImPair(i).object.check # <<>>
ImPassedOver(i) ==
    \/ ImPair(i).kind = Lower(S_ADDED)
    \/ /\ ImPair(i).kind = WATCH_MODIFIED
       /\ ImPair(i).object.isDict
       /\ ~(ImPair(i).object.hasCheck /\ ImPair(i).object.check # <<>>)

\* C31: import_image stays in its loop over the imagestream watch until a
\* terminal event.  It returns only on an event: False at the first deleted
\* or error event; at the first modified event whose dockerRepositoryCheck
\* annotation is non-empty, whether that event's status.tags differ from the
\* tags read before the import.  Every event before the one that ended it,
\* and every event seen while it is still watching, is neither; an added
\* event and a modified event with an empty or missing annotation never is
\* the one that ended it.
C31_ImportEndsAtTerminalEvent ==
    /\ \A i \in 1..im_seen :
         (i < im_seen \/ im_pc = "watching")
         => ~ImEndsFalse(i) /\ ~ImEndsChecked(i)
    /\ im_pc = "returned"
       => /\ im_seen >= 1
          /\ ImEndsFalse(im_seen) \/ ImEndsChecked(im_seen)
          /\ ~ImPassedOver(im_seen)
          /\ ImEndsFalse(im_seen) => im_ret = "False"
          /\ ImEndsChecked(im_seen)
             => im_ret = im_bool(tags_of(ImPair(im_seen).object)
                                 # tags_of(im_stream))
    /\ \A i \in 1..im_seen :
         (ImEndsFalse(i) \/ ImEndsChecked(i))
         => i = im_seen /\ im_pc = "returned"

C31_ReturnedTrueAfterOthers ==
    /\ im_pc = "returned"
    /\ im_ret = "True"
    /\ im_seen = 3
    /\ ImPair(1).kind = Lower(S_ADDED)
    /\ ImPair(2).kind = WATCH_MODIFIED
    /\ ImPassedOver(2)

\* ------------- wait_for_build_to_finish over watch_resource (SpecFinishWatch)
\* C32: wait on top of watch_resource never raises OsbsWatchBuildNotFound:
\* the generator never stops by itself, it ends by an exception or is dropped
\* by wait at a yield.  So wait_for_build_to_finish never takes its retry
\* branch: its loop variable keeps its first value and it calls wait at most
\* once.
C32_RetryBranchUnreachable ==
    /\ wpc # "stopped"
    /\ wait_exc # "OsbsWatchBuildNotFound"
    /\ \A i \in DOMAIN calls : calls[i].exc # "OsbsWatchBuildNotFound"
    /\ retry = RetryFirst
    /\ Len(calls) <= 1
    /\ fexc # "OsbsException: Failed to wait for a build"

C32_WaitFailedAfterReconnect ==
    /\ fpc = "raised"
    /\ Len(calls) = 1
    /\ calls[1].kind = "raise"
    /\ exhausted # <<>>
    /\ Cur = 2

\* ------------------------- watch_resource and a replaying server (SpecReplay)
\* the place of a yielded pair among the lines of its connection
YieldConn(i) == lines[yielded[i].src].conn
YieldPlace(i) ==
    Cardinality({j \in 1..yielded[i].src : lines[j].conn = YieldConn(i)})

\* C33: every attempt of watch_resource, reconnections included, requests the
\* URL built before the loop, with the resourceVersion the watch was started
\* with.  The server therefore starts every connection from the same change:
\* the pair yielded at a given place of a later connection is the pair that
\* was yielded at that place of an earlier one, so what was yielded before a
\* disconnection is yielded again after the reconnect.
C33_ReconnectsFromFirstVersion ==
    /\ \A n \in DOMAIN attempts :
         /\ attempts[n].url = url
         /\ attempts[n].url = attempts[1].url
         /\ attempts[n].request.url = attempts[1].url
    /\ \A n \in DOMAIN attempts, i \in DOMAIN yielded :
         attempts[n].url.query.resourceVersion
             < yielded[i].object.resourceVersion
    /\ \A i, j \in DOMAIN yielded :
         YieldPlace(i) = YieldPlace(j)
         => /\ yielded[i].object = yielded[j].object
            /\ yielded[i].kind = yielded[j].kind

C33_YieldedAgainAfterReconnect ==
    /\ Len(yielded) = 3
    /\ YieldConn(1) = 1
    /\ YieldConn(2) = 1
    /\ YieldConn(3) = 2
    /\ yielded[3].object = yielded[1].object
    /\ exhausted # <<>>

\* ------------------------------------ stream_logs, resumption (SpecLogs)
\* a connection ended with idle at or above the threshold
LongIdleEnd(k) == IdleAtEnd(k) >= min_idle_timeout * TicksPerSecond
\* no line was handed out between the k-th and the j-th end
NoLineBetween(k, j) == lends[j].nyields = lends[k].nyields
\* the j-th end was followed at once by the loop's next turn
ReconnectsAfter(j) ==
    /\ LongIdleEnd(j)
    /\ Len(lreqs) = j => lpc = "request"
    /\ j < Len(lends) \/ lpc # "done"

\* C34 as stated: once a connection has ended with idle >= 60, every later
\* connection that ends without a line is followed by another request, and
\* stream_logs ends, in whatever way, only after a later connection has
\* yielded a line.
C34_EndsOnlyAfterALine ==
    \A k \in DOMAIN lends :
        LongIdleEnd(k)
        => /\ \A j \in DOMAIN lends :
                j > k /\ NoLineBetween(k, j) => ReconnectsAfter(j)
           /\ lpc \in {"done", "raised", "closed"}
              => Len(lyields) > lends[k].nyields

\* C34: once a connection has ended with idle >= 60, every later connection
\* that ends without a line has idle >= 60 too and is followed at once by
\* another request, with no sleep in between; stream_logs returns only after
\* a later connection has yielded a line.  An exception of a request ends it
\* without one.
C34_ReturnsOnlyAfterALine ==
    \A k \in DOMAIN lends :
        LongIdleEnd(k)
        => /\ \A j \in DOMAIN lends :
                j > k /\ NoLineBetween(k, j) => ReconnectsAfter(j)
           /\ lpc \in {"done", "closed"} => Len(lyields) > lends[k].nyields

C34_ReturnedAfterEmptyConnection ==
    /\ lpc = "done"
    /\ Len(lends) = 3
    /\ LongIdleEnd(1)
    /\ NoLineBetween(1, 2)
    /\ lends[3].nyields > lends[2].nyields

\* a request that got a response with a status that is no success, and
\* whose check_response has run
FailedStatus(n) ==
    /\ lreqs[n].error = "none"
    /\ check_response(lreqs[n].status) # "ok"
    /\ ~(n = Len(lreqs) /\ lpc = "check")

\* C36 as stated: every response of stream_logs has its status checked
\* before a line is read; a status that is no success, on the first request
\* or on a later one, ends the generator with OsbsResponseException, and no
\* request follows the failed one.
C36_BadStatusEndsWithResponseException ==
    /\ \A i \in DOMAIN lyields :
         check_response(lreqs[lyields[i].conn].status) = "ok"
    /\ \A n \in DOMAIN lreqs :
         FailedStatus(n)
         => /\ n = Len(lreqs)
            /\ lpc = "raised"
            /\ lexc = "OsbsResponseException"

\* C35: every request of stream_logs carries follow=1.  The first carries no
\* sinceSeconds; every later one carries the idle time measured when the
\* connection before it ended, less one second and truncated to whole
\* seconds, which is 59 or more.
C35_FollowAndSinceSeconds ==
    \A n \in DOMAIN lreqs :
        /\ lreqs[n].kwargs.follow = 1
        /\ n = 1 => ~lreqs[n].kwargs.hasSince
        /\ n > 1 =>
             /\ lreqs[n].kwargs.hasSince
             /\ Len(lends) >= n - 1
             /\ lreqs[n].kwargs.sinceSeconds
                    = int_seconds(IdleAtEnd(n - 1) - 1 * TicksPerSecond)
             /\ lreqs[n].kwargs.sinceSeconds >= min_idle_timeout - 1

C35_TruncatedThenLonger ==
    /\ Len(lreqs) = 3
    /\ IdleAtEnd(1) = min_idle_timeout * TicksPerSecond + 1
    /\ lreqs[2].kwargs.sinceSeconds = min_idle_timeout - 1
    /\ lreqs[3].kwargs.sinceSeconds > lreqs[2].kwargs.sinceSeconds

\* ------------------------------ HttpSession.request, its failures (SpecHttp)
\* C38 as stated: whatever session.request raises (HTTPError, RetryError with
\* or without a ResponseError reason, anything else), under either version
\* of requests and with either message, the caller of HttpSession.request
\* gets OsbsNetworkException or OsbsException and no other type, and the
\* status code handed to OsbsNetworkException is a bound value.
C38_OnlyOsbsExceptionsEscape ==
    hpc = "raised"
    => /\ hexc.type \in {"OsbsNetworkException", "OsbsException"}
       /\ hexc.status_code # StatusUnbound
       /\ hexc.type = "OsbsNetworkException"
          => hexc.status_code.kind \in {"int", "empty"}

\* ----------------------------- error events and the three loops (SpecKinds)
IsErrorEvent(i) == yielded[i].kind = WATCH_ERROR
\* wait_for_new_build_config_instance was ended by the pair it saw last
BcEndedByEvent ==
    bc_pc = "returned" \/ (bc_pc = "raised" /\ bc_exc = bc_after_loop)

\* C37: an error event does not by itself end wait or
\* wait_for_new_build_config_instance.  wait returns on a pair only for the
\* name and phase of its object, whatever the kind: the pair it returned on
\* names the build in a wanted phase, and no pair it went past carried an
\* equal object under another kind; it never raises for an error event.
\* wait_for_new_build_config_instance is never ended by an error event.
\* import_image returns False at the first error event it sees.
C37_ErrorEventEndsImportOnly ==
    /\ consumer = "kind_wait" =>
         /\ wait_pc = "returned" =>
              /\ yielded[wait_seen].object.name = build_id
              /\ Lower(yielded[wait_seen].object.phase) \in states
              /\ \A i \in 1..(wait_seen - 1) :
                   yielded[i].object # yielded[wait_seen].object
         /\ \A i \in 1..wait_seen :
              (IsErrorEvent(i) /\ ~(i = wait_seen /\ wait_pc = "returned"))
              => ~(/\ yielded[i].object.hasName
                   /\ yielded[i].object.name = build_id
                   /\ Lower(yielded[i].object.phase) \in states)
         /\ wait_pc = "raised" => wait_exc = wexc /\ wpc = "raised"
    /\ consumer = "bc_wait" =>
         \A i \in 1..bc_seen :
             IsErrorEvent(i) => ~(i = bc_seen /\ BcEndedByEvent)
    /\ consumer = "import" =>
         \A i \in 1..im_seen :
             IsErrorEvent(i)
             => i = im_seen /\ im_pc = "returned" /\ im_ret = "False"

C37_WaitWentPastErrorEvent ==
    /\ consumer = "kind_wait"
    /\ wait_pc = "returned"
    /\ wait_seen = 3
    /\ IsErrorEvent(1)
    /\ yielded[1].object.hasName
    /\ IsErrorEvent(2)
    /\ ~yielded[2].object.hasName
    /\ IsErrorEvent(3)

\* ------------------------------------- _request_args, the token (SpecAuth)
\* C39 as stated, for a client with use_auth set: every API request sent
\* carries a Bearer token; a token that was missing was fetched by a token
\* request sent before it; once an API request has gone out no token request
\* follows; and when a call ends with no token obtained, it has raised
\* OsbsAuthException (or the token request itself has failed with the
\* exception of the transport) and has sent no API request.
C39_BearerOrAuthException ==
    acl.use_auth =>
        /\ \A i \in DOMAIN asent :
             asent[i].to = "api" =>
                 /\ asent[i].bearer \in {"given", "fetched"}
                 /\ asent[i].bearer = "fetched"
                    => \E j \in 1..(i - 1) : asent[j].to = "token"
                 /\ \A j \in DOMAIN asent : j > i => asent[j].to = "api"
        /\ (acalls > 0 /\ acl.token \in {"None", "empty"}) =>
             /\ aout \in {"OsbsAuthException"} \cup ConnErrors
             /\ \A i \in DOMAIN asent : asent[i].to # "api"
====
